---- MODULE Spec2Model ----
(***************************************************************************)
(* Battle engine of robot_war: arena, robots, instruction parsing and the  *)
(* per-turn dispatch of GameState, as a state machine.                     *)
(***************************************************************************)
EXTENDS Integers, Sequences, FiniteSets, TLC

(* ---------------------------------------------------------------------- *)
(* Bounds of the model                                                     *)
(* ---------------------------------------------------------------------- *)
\* arena_width of the modelled game
Width == 3
\* arena_height of the modelled game
Height == 2
\* max_turns of the modelled game
MaxTurns == 3
\* proximity_distance of the modelled game (PT radius and fire range)
ProximityDistance == 2
\* num_obstacles of a game whose arena is set up with obstacles
MaxObstacles == 1

(* ---------------------------------------------------------------------- *)
(* Values                                                                  *)
(* ---------------------------------------------------------------------- *)
\* Python None for an Optional[int] player id
NoPlayer == 0
\* Python None for an Optional[Robot]; robots are named by roster index 1..
NoRobot == 0
\* Python None for an Optional[Direction]
NoDirection == "None"
\* Python None (or the empty string) for an Optional[str]
NoString == <<>>

ALIVE == "alive"
DEAD == "dead"
INVISIBLE == "invisible"
FROZEN == "frozen"

SETUP == "setup"
PROGRAMMING == "programming"
BATTLE == "battle"
FINISHED == "finished"

EMPTY == "empty"
OBSTACLE == "obstacle"
DEAD_ROBOT == "dead_robot"

Positions == (0 .. Width - 1) \X (0 .. Height - 1)

\* Direction enum, in declaration order
DirectionNames == <<"N", "NE", "E", "SE", "S", "SW", "W", "NW">>

Directions == {DirectionNames[k] : k \in 1 .. Len(DirectionNames)}

DirectionValue ==
  [d \in Directions |->
     CASE d = "N" -> <<0, -1>>
       [] d = "NE" -> <<1, -1>>
       [] d = "E" -> <<1, 0>>
       [] d = "SE" -> <<1, 1>>
       [] d = "S" -> <<0, 1>>
       [] d = "SW" -> <<-1, 1>>
       [] d = "W" -> <<-1, 0>>
       [] d = "NW" -> <<-1, -1>>]

\* InstructionType enum member names
InstructionTypes == {"DM", "RM", "PM", "AM", "MI", "IN", "FR", "FC", "PT"}

ENERGY_COSTS ==
  [t \in InstructionTypes |->
     CASE t = "DM" -> 5
       [] t = "RM" -> 5
       [] t = "PM" -> 10
       [] t = "MI" -> 200
       [] t = "IN" -> 200
       [] t = "AM" -> 15
       [] t = "FR" -> 100
       [] t = "FC" -> 100
       [] t = "PT" -> 4]

DamageTypes == {"MI", "FR", "FC"}

DAMAGE_VALUES ==
  [t \in DamageTypes |->
     CASE t = "MI" -> 200
       [] t = "FR" -> 200
       [] t = "FC" -> 200]

get_energy_cost(t) == IF t \in InstructionTypes THEN ENERGY_COSTS[t] ELSE 0

get_damage(t) == IF t \in DamageTypes THEN DAMAGE_VALUES[t] ELSE 0

Max(S) == CHOOSE m \in S : \A n \in S : n <= m

Abs(n) == IF n < 0 THEN -n ELSE n

\* emergency_energy_threshold with a margin of 3 over the highest cost
EmergencyThreshold_tight == Max({ENERGY_COSTS[t] : t \in InstructionTypes}) + 3

\* emergency_energy_threshold that leaves out the unit at the threshold
EmergencyThreshold_below == Max({ENERGY_COSTS[t] : t \in InstructionTypes}) + 9

\* emergency_energy_threshold computed in Robot.__init__
EmergencyThreshold == Max({ENERGY_COSTS[t] : t \in InstructionTypes}) + 10

(* ---------------------------------------------------------------------- *)
(* Instruction strings: sequences of one-character strings                 *)
(* ---------------------------------------------------------------------- *)
LowerChars == <<"a", "c", "d", "e", "f", "i", "m", "n", "p", "r", "s", "t", "w">>

UpperChars == <<"A", "C", "D", "E", "F", "I", "M", "N", "P", "R", "S", "T", "W">>

\* str.upper on one character
UpperChar(c) ==
  IF \E k \in 1 .. Len(LowerChars) : LowerChars[k] = c
  THEN UpperChars[CHOOSE k \in 1 .. Len(LowerChars) : LowerChars[k] = c]
  ELSE c

\* str.upper
Upper(s) == [k \in 1 .. Len(s) |-> UpperChar(s[k])]

\* str.find: 1-based index of the first occurrence of c, 0 when absent
Find(s, c) ==
  IF \E k \in 1 .. Len(s) : s[k] = c
  THEN CHOOSE k \in 1 .. Len(s) : s[k] = c /\ \A j \in 1 .. k - 1 : s[j] # c
  ELSE 0

\* str.rfind: 1-based index of the last occurrence of c, 0 when absent
RFind(s, c) ==
  IF \E k \in 1 .. Len(s) : s[k] = c
  THEN CHOOSE k \in 1 .. Len(s) : s[k] = c /\ \A j \in k + 1 .. Len(s) : s[j] # c
  ELSE 0

\* str.strip (whitespace is the blank)
Strip(s) ==
  IF \A k \in 1 .. Len(s) : s[k] = " " THEN <<>>
  ELSE LET a == CHOOSE k \in 1 .. Len(s) : s[k] # " " /\ \A j \in 1 .. k - 1 : s[j] = " "
           b == CHOOSE k \in 1 .. Len(s) : s[k] # " " /\ \A j \in k + 1 .. Len(s) : s[j] = " "
       IN SubSeq(s, a, b)

\* str.rstrip(c)
RStrip(s, c) ==
  IF \A k \in 1 .. Len(s) : s[k] = c THEN <<>>
  ELSE LET b == CHOOSE k \in 1 .. Len(s) : s[k] # c /\ \A j \in k + 1 .. Len(s) : s[j] = c
       IN SubSeq(s, 1, b)

\* instruction_str.split('(')[0]
SplitFirst(s) == IF Find(s, "(") = 0 THEN s ELSE SubSeq(s, 1, Find(s, "(") - 1)

\* instruction_str.split('(')[1], defined when the string holds a '('
SplitSecond(s) ==
  LET rest == SubSeq(s, Find(s, "(") + 1, Len(s))
  IN IF Find(rest, "(") = 0 THEN rest ELSE SubSeq(rest, 1, Find(rest, "(") - 1)

\* len(instruction_str.split('(')) > 1
HasParts(s) == Find(s, "(") # 0

\* InstructionType[name]: the member whose name is the character sequence
TypeChars ==
  [t \in InstructionTypes |->
     CASE t = "DM" -> <<"D", "M">>
       [] t = "RM" -> <<"R", "M">>
       [] t = "PM" -> <<"P", "M">>
       [] t = "AM" -> <<"A", "M">>
       [] t = "MI" -> <<"M", "I">>
       [] t = "IN" -> <<"I", "N">>
       [] t = "FR" -> <<"F", "R">>
       [] t = "FC" -> <<"F", "C">>
       [] t = "PT" -> <<"P", "T">>]

\* Direction[name]
DirectionChars ==
  [d \in Directions |->
     CASE d = "N" -> <<"N">>
       [] d = "NE" -> <<"N", "E">>
       [] d = "E" -> <<"E">>
       [] d = "SE" -> <<"S", "E">>
       [] d = "S" -> <<"S">>
       [] d = "SW" -> <<"S", "W">>
       [] d = "W" -> <<"W">>
       [] d = "NW" -> <<"N", "W">>]

\* full_content = instruction_str[find('(')+1 : rfind(')')]
FullContent(s) ==
  LET a == Find(s, "(")
      r == RFind(s, ")")
  IN IF r = 0 THEN SubSeq(s, a + 1, Len(s) - 1) ELSE SubSeq(s, a + 1, r - 1)

\* the character loop that splits full_content on top-level commas
RECURSIVE SplitActions(_, _, _, _, _)
SplitActions(content, k, actions, paren_depth, current_action) ==
  IF k > Len(content)
  THEN IF Strip(current_action) # <<>>
       THEN Append(actions, Strip(current_action))
       ELSE actions
  ELSE LET char == content[k] IN
       IF char = "("
       THEN SplitActions(content, k + 1, actions, paren_depth + 1,
                         Append(current_action, char))
       ELSE IF char = ")"
       THEN SplitActions(content, k + 1, actions, paren_depth - 1,
                         Append(current_action, char))
       ELSE IF char = "," /\ paren_depth = 0
       THEN SplitActions(content, k + 1, Append(actions, Strip(current_action)),
                         paren_depth, <<>>)
       ELSE SplitActions(content, k + 1, actions, paren_depth,
                         Append(current_action, char))

\* the Optional[Instruction] None
NoInstruction == [ok |-> FALSE, type |-> "none", direction |-> NoDirection, parameter |-> <<>>]

\* Instruction(instruction_type, direction, parameter)
Instruction(t, d, p) == [ok |-> TRUE, type |-> t, direction |-> d, parameter |-> p]

\* InstructionSet.parse_instruction
parse_instruction(s) ==
  LET instruction_name == Upper(Strip(SplitFirst(s))) IN
  IF ~ \E t \in InstructionTypes : TypeChars[t] = instruction_name
  THEN NoInstruction
  ELSE LET instruction_type == CHOOSE t \in InstructionTypes : TypeChars[t] = instruction_name IN
       IF HasParts(s)
       THEN IF instruction_type = "DM"
            THEN LET direction_str == Upper(Strip(RStrip(SplitSecond(s), ")"))) IN
                 IF \E d \in Directions : DirectionChars[d] = direction_str
                 THEN Instruction("DM",
                                  CHOOSE d \in Directions : DirectionChars[d] = direction_str,
                                  <<>>)
                 ELSE NoInstruction
            ELSE IF instruction_type = "PT"
            THEN LET actions == SplitActions(FullContent(s), 1, <<>>, 0, <<>>) IN
                 IF Len(actions) # 2 \/ \E k \in 1 .. Len(actions) : actions[k] = <<>>
                 THEN NoInstruction
                 ELSE Instruction("PT", NoDirection, actions)
            ELSE Instruction(instruction_type, NoDirection, <<>>)
       ELSE IF instruction_type = "PT"
       THEN NoInstruction
       ELSE Instruction(instruction_type, NoDirection, <<>>)

(* ---------------------------------------------------------------------- *)
(* The game as a value: g.robots is GameState.robots (the roster), g.grid, *)
(* g.mines and g.arobots are Arena.grid, Arena.mines and Arena.robots      *)
(* (positions to roster indices), g.combat_log is GameState.combat_log.    *)
(* g.died and g.last are history: the robots whose status was ever set to  *)
(* DEAD, and what the most recent dispatch did.                            *)
(* ---------------------------------------------------------------------- *)
MapRemove(f, k) == [p \in DOMAIN f \ {k} |-> f[p]]

MapPut(f, k, v) == [p \in DOMAIN f \cup {k} |-> IF p = k THEN v ELSE f[p]]

EmptyMap == [p \in {} |-> 0]

\* Robot.__init__
Robot(player_id, x, y, energy) ==
  [player_id |-> player_id, x |-> x, y |-> y, energy |-> energy,
   max_energy |-> energy, program |-> <<>>, program_counter |-> 0,
   status |-> ALIVE, invisible_turns |-> 0, emergency_action |-> NoString,
   emergency_energy_threshold |-> EmergencyThreshold]

\* Robot.get_position
get_position(r) == <<r.x, r.y>>

\* Robot.is_alive
is_alive(r) == r.status # DEAD

\* can_execute that lets a Frozen robot execute
can_execute_frozen(r) == r.status # DEAD

\* Robot.can_execute
can_execute(r) == r.status \notin {DEAD, FROZEN}

\* Robot.get_current_instruction
get_current_instruction(r) ==
  IF r.program = <<>> THEN NoString ELSE r.program[r.program_counter + 1]

\* advance_program_counter that also gives the unit one unit of energy back
advance_program_counter_regen(r) ==
  IF r.program # <<>>
  THEN [r EXCEPT !.program_counter = (r.program_counter + 1) % Len(r.program),
                 !.energy = r.energy + 1]
  ELSE r

\* Robot.advance_program_counter
advance_program_counter(r) ==
  IF r.program # <<>>
  THEN [r EXCEPT !.program_counter = (r.program_counter + 1) % Len(r.program)]
  ELSE r

\* update_invisibility that lets Frozen lapse in the way Invisible does
update_invisibility_thaw(r) ==
  IF r.status \in {INVISIBLE, FROZEN}
  THEN IF r.invisible_turns - 1 <= 0
       THEN [r EXCEPT !.invisible_turns = r.invisible_turns - 1, !.status = ALIVE]
       ELSE [r EXCEPT !.invisible_turns = r.invisible_turns - 1]
  ELSE r

\* update_invisibility that lets the status lapse one turn later
update_invisibility_late(r) ==
  IF r.status = INVISIBLE
  THEN IF r.invisible_turns - 1 < 0
       THEN [r EXCEPT !.invisible_turns = r.invisible_turns - 1, !.status = ALIVE]
       ELSE [r EXCEPT !.invisible_turns = r.invisible_turns - 1]
  ELSE r

\* Robot.update_invisibility
update_invisibility(r) ==
  IF r.status = INVISIBLE
  THEN IF r.invisible_turns - 1 <= 0
       THEN [r EXCEPT !.invisible_turns = r.invisible_turns - 1, !.status = ALIVE]
       ELSE [r EXCEPT !.invisible_turns = r.invisible_turns - 1]
  ELSE r

\* Robot.take_damage
take_damage(g, i, damage) ==
  LET e == g.robots[i].energy - damage IN
  IF e <= 0
  THEN [g EXCEPT !.robots[i].energy = e, !.robots[i].status = DEAD,
                 !.died = g.died \cup {i}]
  ELSE [g EXCEPT !.robots[i].energy = e]

\* Robot.use_energy: the game afterwards and the returned flag
use_energy(g, i, cost) ==
  IF g.robots[i].energy >= cost
  THEN LET e == g.robots[i].energy - cost
           g1 == [g EXCEPT !.robots[i].energy = e, !.last.paid = g.last.paid + cost]
       IN [ok |-> TRUE,
           g |-> IF e <= 0
                 THEN [g1 EXCEPT !.robots[i].status = DEAD, !.died = g.died \cup {i}]
                 ELSE g1]
  ELSE [ok |-> FALSE, g |-> g]

\* Robot.set_invisible
set_invisible(g, i, turns) ==
  [g EXCEPT !.robots[i].status = INVISIBLE, !.robots[i].invisible_turns = turns]

\* Arena.is_valid_position
is_valid_position(x, y) == 0 <= x /\ x < Width /\ 0 <= y /\ y < Height

\* Arena.is_passable
is_passable(g, x, y) ==
  IF ~ is_valid_position(x, y) THEN FALSE
  ELSE g.grid[<<x, y>>] \notin {OBSTACLE, DEAD_ROBOT}

\* Arena.place_obstacle
place_obstacle(g, x, y) ==
  IF is_valid_position(x, y) THEN [g EXCEPT !.grid[<<x, y>>] = OBSTACLE] ELSE g

\* Arena.generate_obstacles: the grids it can leave, one for every set of
\* cells that the draws of get_random_empty_position can pick; the loop stops
\* at count obstacles or when no cell is left
generate_obstacles(g, count, exclude_positions) ==
  LET free == {p \in Positions : p \notin exclude_positions /\ is_passable(g, p[1], p[2])}
      n == IF count < Cardinality(free) THEN count ELSE Cardinality(free)
  IN {[p \in Positions |-> IF p \in S THEN OBSTACLE ELSE g.grid[p]] :
        S \in {T \in SUBSET free : Cardinality(T) = n}}

\* Arena.place_dead_robot
place_dead_robot(g, x, y) ==
  IF is_valid_position(x, y) THEN [g EXCEPT !.grid[<<x, y>>] = DEAD_ROBOT] ELSE g

\* the factor that encodes the owner in a mine id
MineIdFactor == 10

\* place_mine that stores the owner's id as it is
place_mine_plain(g, x, y, owner_id, damage) ==
  IF is_valid_position(x, y)
  THEN [g EXCEPT !.mines = MapPut(g.mines, <<x, y>>, <<owner_id, damage>>)]
  ELSE g

\* Arena.place_mine
place_mine(g, x, y, owner_id, damage) ==
  IF is_valid_position(x, y)
  THEN [g EXCEPT !.mines = MapPut(g.mines, <<x, y>>, <<owner_id * MineIdFactor, damage>>)]
  ELSE g

\* Arena.has_mine
has_mine(g, x, y) == <<x, y>> \in DOMAIN g.mines

\* trigger_mine that returns the mine data without deleting the mine
trigger_mine_kept(g, x, y) == g

\* Arena.trigger_mine: the game afterwards (the mine data is read before)
trigger_mine(g, x, y) ==
  IF <<x, y>> \in DOMAIN g.mines
  THEN [g EXCEPT !.mines = MapRemove(g.mines, <<x, y>>)]
  ELSE g

\* GameState.get_living_robots, as roster indices in roster order
get_living_robots(g) ==
  SelectSeq([k \in 1 .. Len(g.robots) |-> k], LAMBDA k : is_alive(g.robots[k]))

\* GameState._handle_robot_death
handle_robot_death(g, i) ==
  LET pos == get_position(g.robots[i])
      g1 == IF pos \in DOMAIN g.arobots
            THEN [g EXCEPT !.arobots = MapRemove(g.arobots, pos)]
            ELSE g
  IN place_dead_robot(g1, pos[1], pos[2])

\* MineOwner that takes the remainder instead of the quotient
MineOwner_remainder(mine_id) == mine_id % MineIdFactor

\* the decoded owner of a mine id in GameState._move_robot
MineOwner(mine_id) == mine_id \div MineIdFactor

\* relocate that forgets to enter the robot under its new cell
relocate_unregistered(g, i, new_x, new_y) ==
  [g EXCEPT !.arobots = MapRemove(g.arobots, get_position(g.robots[i])),
            !.robots[i].x = new_x,
            !.robots[i].y = new_y]

\* the three lines of GameState._move_robot that take the robot to its new cell
relocate(g, i, new_x, new_y) ==
  [g EXCEPT !.arobots = MapPut(MapRemove(g.arobots, get_position(g.robots[i])),
                               <<new_x, new_y>>, i),
            !.robots[i].x = new_x,
            !.robots[i].y = new_y]

\* move_robot without the test for a unit in the destination cell
move_robot_shared(g, i, direction) ==
  IF direction = NoDirection THEN g
  ELSE
    LET robot == g.robots[i]
        off == DirectionValue[direction]
        new_x == robot.x + off[1]
        new_y == robot.y + off[2]
    IN IF ~ is_passable(g, new_x, new_y) THEN g
       ELSE IF has_mine(g, new_x, new_y)
       THEN LET mine_data == g.mines[<<new_x, new_y>>]
                g1 == trigger_mine(g, new_x, new_y)
            IN IF MineOwner(mine_data[1]) = robot.player_id
               THEN place_mine(g1, new_x, new_y, robot.player_id, mine_data[2])
               ELSE LET was_alive == is_alive(robot)
                        g2 == take_damage(relocate(g1, i, new_x, new_y), i, mine_data[2])
                    IN IF was_alive /\ ~ is_alive(g2.robots[i])
                       THEN handle_robot_death(g2, i)
                       ELSE g2
       ELSE relocate(g, i, new_x, new_y)

\* GameState._move_robot
move_robot(g, i, direction) ==
  IF direction = NoDirection THEN g
  ELSE
    LET robot == g.robots[i]
        off == DirectionValue[direction]
        new_x == robot.x + off[1]
        new_y == robot.y + off[2]
    IN IF ~ is_passable(g, new_x, new_y) THEN g
       ELSE IF <<new_x, new_y>> \in DOMAIN g.arobots THEN g
       ELSE IF has_mine(g, new_x, new_y)
       THEN LET mine_data == g.mines[<<new_x, new_y>>]
                g1 == trigger_mine(g, new_x, new_y)
            IN IF MineOwner(mine_data[1]) = robot.player_id
               THEN place_mine(g1, new_x, new_y, robot.player_id, mine_data[2])
               ELSE LET was_alive == is_alive(robot)
                        g2 == take_damage(relocate(g1, i, new_x, new_y), i, mine_data[2])
                    IN IF was_alive /\ ~ is_alive(g2.robots[i])
                       THEN handle_robot_death(g2, i)
                       ELSE g2
       ELSE relocate(g, i, new_x, new_y)

\* place_mine_at_robot that lays the mine on the cell east of the unit
place_mine_at_robot_east(g, i) ==
  LET robot == g.robots[i] IN
  IF has_mine(g, robot.x + 1, robot.y) THEN g
  ELSE place_mine(g, robot.x + 1, robot.y, robot.player_id, get_damage("MI"))

\* GameState._place_mine
place_mine_at_robot(g, i) ==
  LET robot == g.robots[i] IN
  IF has_mine(g, robot.x, robot.y) THEN g
  ELSE place_mine(g, robot.x, robot.y, robot.player_id, get_damage("MI"))

\* Manhattan distance between two robots
Distance(a, b) == Abs(a.x - b.x) + Abs(a.y - b.y)

\* find_nearest_enemy without the filter on Invisible units
find_nearest_enemy_any(g, i) ==
  LET robot == g.robots[i]
      cand == {k \in 1 .. Len(g.robots) :
                 /\ is_alive(g.robots[k])
                 /\ g.robots[k].player_id # robot.player_id}
  IN IF cand = {} THEN NoRobot
     ELSE CHOOSE k \in cand :
            \A j \in cand :
              \/ Distance(robot, g.robots[k]) < Distance(robot, g.robots[j])
              \/ (Distance(robot, g.robots[k]) = Distance(robot, g.robots[j]) /\ k <= j)

\* GameState._find_nearest_enemy: roster index, or NoRobot
find_nearest_enemy(g, i) ==
  LET robot == g.robots[i]
      cand == {k \in 1 .. Len(g.robots) :
                 /\ is_alive(g.robots[k])
                 /\ g.robots[k].player_id # robot.player_id
                 /\ g.robots[k].status # INVISIBLE}
  IN IF cand = {} THEN NoRobot
     ELSE CHOOSE k \in cand :
            \A j \in cand :
              \/ Distance(robot, g.robots[k]) < Distance(robot, g.robots[j])
              \/ (Distance(robot, g.robots[k]) = Distance(robot, g.robots[j]) /\ k <= j)

\* max(-1, min(1, d))
Clamp(d) == IF d > 1 THEN 1 ELSE IF d < -1 THEN -1 ELSE d

\* the Direction whose value is the offset, or NoDirection
DirectionOf(off) ==
  IF \E d \in Directions : DirectionValue[d] = off
  THEN CHOOSE d \in Directions : DirectionValue[d] = off
  ELSE NoDirection

\* Arena.get_move_towards
get_move_towards(from_x, from_y, to_x, to_y) ==
  LET dx == to_x - from_x
      dy == to_y - from_y
  IN IF dx = 0 /\ dy = 0 THEN NoDirection
     ELSE DirectionOf(<<Clamp(dx), Clamp(dy)>>)

\* Arena.get_move_away
get_move_away(from_x, from_y, avoid_x, avoid_y) ==
  LET target_direction == get_move_towards(from_x, from_y, avoid_x, avoid_y) IN
  IF target_direction = NoDirection THEN NoDirection
  ELSE DirectionOf(<<- DirectionValue[target_direction][1],
                     - DirectionValue[target_direction][2]>>)

\* GameState._get_direction_to_nearest_enemy
get_direction_to_nearest_enemy(g, i) ==
  LET nearest_enemy == find_nearest_enemy(g, i) IN
  IF nearest_enemy = NoRobot THEN NoDirection
  ELSE get_move_towards(g.robots[i].x, g.robots[i].y,
                        g.robots[nearest_enemy].x, g.robots[nearest_enemy].y)

\* GameState._get_direction_from_nearest_enemy
get_direction_from_nearest_enemy(g, i) ==
  LET nearest_enemy == find_nearest_enemy(g, i) IN
  IF nearest_enemy = NoRobot THEN NoDirection
  ELSE get_move_away(g.robots[i].x, g.robots[i].y,
                     g.robots[nearest_enemy].x, g.robots[nearest_enemy].y)

\* round that takes a tie to the next integer above
PyRound_half_up(n, d) ==
  LET q == n \div d
      rem == n - q * d
  IN IF 2 * rem < d THEN q ELSE q + 1

\* Python round(n / d) for d > 0: to nearest, ties to the even integer
PyRound(n, d) ==
  LET q == n \div d
      rem == n - q * d
  IN IF 2 * rem < d THEN q
     ELSE IF 2 * rem > d THEN q + 1
     ELSE IF q % 2 = 0 THEN q ELSE q + 1

\* LineSamples that lets a unit on an intermediate sample block the line
RECURSIVE LineSamples_units(_, _, _, _, _, _, _)
LineSamples_units(g, from_x, from_y, to_x, to_y, steps, k) ==
  IF k > steps THEN TRUE
  ELSE LET x == from_x + PyRound((to_x - from_x) * k, steps)
           y == from_y + PyRound((to_y - from_y) * k, steps)
       IN IF ~ is_valid_position(x, y) THEN FALSE
          ELSE IF x = to_x /\ y = to_y THEN TRUE
          ELSE IF ~ is_passable(g, x, y) \/ <<x, y>> \in DOMAIN g.arobots THEN FALSE
          ELSE LineSamples_units(g, from_x, from_y, to_x, to_y, steps, k + 1)

\* the sampling loop of GameState._has_line_of_sight, from sample k on
RECURSIVE LineSamples(_, _, _, _, _, _, _)
LineSamples(g, from_x, from_y, to_x, to_y, steps, k) ==
  IF k > steps THEN TRUE
  ELSE LET x == from_x + PyRound((to_x - from_x) * k, steps)
           y == from_y + PyRound((to_y - from_y) * k, steps)
       IN IF ~ is_valid_position(x, y) THEN FALSE
          ELSE IF x = to_x /\ y = to_y THEN TRUE
          ELSE IF ~ is_passable(g, x, y) THEN FALSE
          ELSE LineSamples(g, from_x, from_y, to_x, to_y, steps, k + 1)

\* GameState._has_line_of_sight
has_line_of_sight(g, from_x, from_y, to_x, to_y) ==
  IF from_x = to_x /\ from_y = to_y THEN TRUE
  ELSE LineSamples(g, from_x, from_y, to_x, to_y,
                   Max({Abs(to_x - from_x), Abs(to_y - from_y)}), 1)

\* check_proximity without the filter on Invisible and Frozen units
check_proximity_any(g, i) ==
  \E k \in 1 .. Len(g.robots) :
     /\ is_alive(g.robots[k])
     /\ g.robots[k].player_id # g.robots[i].player_id
     /\ Distance(g.robots[i], g.robots[k]) <= g.proximity_distance
     /\ has_line_of_sight(g, g.robots[i].x, g.robots[i].y, g.robots[k].x, g.robots[k].y)

\* check_proximity with the radius as an exclusive bound
check_proximity_strict(g, i) ==
  \E k \in 1 .. Len(g.robots) :
     /\ is_alive(g.robots[k])
     /\ g.robots[k].player_id # g.robots[i].player_id
     /\ g.robots[k].status \notin {INVISIBLE, FROZEN}
     /\ Distance(g.robots[i], g.robots[k]) < g.proximity_distance
     /\ has_line_of_sight(g, g.robots[i].x, g.robots[i].y, g.robots[k].x, g.robots[k].y)

\* GameState._check_proximity
check_proximity(g, i) ==
  \E k \in 1 .. Len(g.robots) :
     /\ is_alive(g.robots[k])
     /\ g.robots[k].player_id # g.robots[i].player_id
     /\ g.robots[k].status \notin {INVISIBLE, FROZEN}
     /\ Distance(g.robots[i], g.robots[k]) <= g.proximity_distance
     /\ has_line_of_sight(g, g.robots[i].x, g.robots[i].y, g.robots[k].x, g.robots[k].y)

(* ---------------------------------------------------------------------- *)
(* Instruction effects                                                     *)
(* ---------------------------------------------------------------------- *)
\* fire_scan without the test for an Obstacle or Wreck cell
RECURSIVE fire_scan_unblocked(_, _, _, _, _, _, _, _, _)
fire_scan_unblocked(g, i, sx, sy, dx, dy, distance, damage, logs) ==
  IF distance > g.proximity_distance THEN g
  ELSE LET tx == sx + dx * distance
           ty == sy + dy * distance
       IN IF ~ is_valid_position(tx, ty) THEN g
          ELSE IF /\ <<tx, ty>> \in DOMAIN g.arobots
                  /\ g.robots[g.arobots[<<tx, ty>>]].player_id # g.robots[i].player_id
          THEN LET target_robot == g.arobots[<<tx, ty>>]
                   was_alive == is_alive(g.robots[target_robot])
                   g1 == take_damage(g, target_robot, damage)
                   g2 == IF logs
                         THEN [g1 EXCEPT !.combat_log =
                                 Append(g1.combat_log, <<"hits", target_robot, tx, ty>>)]
                         ELSE g1
               IN IF was_alive /\ ~ is_alive(g2.robots[target_robot])
                  THEN handle_robot_death(g2, target_robot)
                  ELSE g2
          ELSE fire_scan_unblocked(g, i, sx, sy, dx, dy, distance + 1, damage, logs)

\* fire_scan that passes over an Invisible unit
RECURSIVE fire_scan_unseen(_, _, _, _, _, _, _, _, _)
fire_scan_unseen(g, i, sx, sy, dx, dy, distance, damage, logs) ==
  IF distance > g.proximity_distance THEN g
  ELSE LET tx == sx + dx * distance
           ty == sy + dy * distance
       IN IF ~ is_valid_position(tx, ty) THEN g
          ELSE IF ~ is_passable(g, tx, ty) THEN g
          ELSE IF /\ <<tx, ty>> \in DOMAIN g.arobots
                  /\ g.robots[g.arobots[<<tx, ty>>]].player_id # g.robots[i].player_id
                  /\ g.robots[g.arobots[<<tx, ty>>]].status # INVISIBLE
          THEN LET target_robot == g.arobots[<<tx, ty>>]
                   was_alive == is_alive(g.robots[target_robot])
                   g1 == take_damage(g, target_robot, damage)
                   g2 == IF logs
                         THEN [g1 EXCEPT !.combat_log =
                                 Append(g1.combat_log, <<"hits", target_robot, tx, ty>>)]
                         ELSE g1
               IN IF was_alive /\ ~ is_alive(g2.robots[target_robot])
                  THEN handle_robot_death(g2, target_robot)
                  ELSE g2
          ELSE fire_scan_unseen(g, i, sx, sy, dx, dy, distance + 1, damage, logs)

\* fire_scan without the break after a hit: the shot goes on behind the target
RECURSIVE fire_scan_through(_, _, _, _, _, _, _, _, _)
fire_scan_through(g, i, sx, sy, dx, dy, distance, damage, logs) ==
  IF distance > g.proximity_distance THEN g
  ELSE LET tx == sx + dx * distance
           ty == sy + dy * distance
       IN IF ~ is_valid_position(tx, ty) THEN g
          ELSE IF ~ is_passable(g, tx, ty) THEN g
          ELSE IF /\ <<tx, ty>> \in DOMAIN g.arobots
                  /\ g.robots[g.arobots[<<tx, ty>>]].player_id # g.robots[i].player_id
          THEN LET target_robot == g.arobots[<<tx, ty>>]
                   was_alive == is_alive(g.robots[target_robot])
                   g1 == take_damage(g, target_robot, damage)
                   g2 == IF logs
                         THEN [g1 EXCEPT !.combat_log =
                                 Append(g1.combat_log, <<"hits", target_robot, tx, ty>>)]
                         ELSE g1
               IN fire_scan_through(
                    IF was_alive /\ ~ is_alive(g2.robots[target_robot])
                    THEN handle_robot_death(g2, target_robot)
                    ELSE g2,
                    i, sx, sy, dx, dy, distance + 1, damage, logs)
          ELSE fire_scan_through(g, i, sx, sy, dx, dy, distance + 1, damage, logs)

\* fire_scan that stops at the first occupied cell, whoever stands there
RECURSIVE fire_scan_blocked(_, _, _, _, _, _, _, _, _)
fire_scan_blocked(g, i, sx, sy, dx, dy, distance, damage, logs) ==
  IF distance > g.proximity_distance THEN g
  ELSE LET tx == sx + dx * distance
           ty == sy + dy * distance
       IN IF ~ is_valid_position(tx, ty) THEN g
          ELSE IF ~ is_passable(g, tx, ty) THEN g
          ELSE IF /\ <<tx, ty>> \in DOMAIN g.arobots
                  /\ g.robots[g.arobots[<<tx, ty>>]].player_id # g.robots[i].player_id
          THEN LET target_robot == g.arobots[<<tx, ty>>]
                   was_alive == is_alive(g.robots[target_robot])
                   g1 == take_damage(g, target_robot, damage)
                   g2 == IF logs
                         THEN [g1 EXCEPT !.combat_log =
                                 Append(g1.combat_log, <<"hits", target_robot, tx, ty>>)]
                         ELSE g1
               IN IF was_alive /\ ~ is_alive(g2.robots[target_robot])
                  THEN handle_robot_death(g2, target_robot)
                  ELSE g2
          ELSE IF <<tx, ty>> \in DOMAIN g.arobots THEN g
          ELSE fire_scan_blocked(g, i, sx, sy, dx, dy, distance + 1, damage, logs)

\* fire_scan without the test of the target's side
RECURSIVE fire_scan_anyone(_, _, _, _, _, _, _, _, _)
fire_scan_anyone(g, i, sx, sy, dx, dy, distance, damage, logs) ==
  IF distance > g.proximity_distance THEN g
  ELSE LET tx == sx + dx * distance
           ty == sy + dy * distance
       IN IF ~ is_valid_position(tx, ty) THEN g
          ELSE IF ~ is_passable(g, tx, ty) THEN g
          ELSE IF <<tx, ty>> \in DOMAIN g.arobots
          THEN LET target_robot == g.arobots[<<tx, ty>>]
                   was_alive == is_alive(g.robots[target_robot])
                   g1 == take_damage(g, target_robot, damage)
                   g2 == IF logs
                         THEN [g1 EXCEPT !.combat_log =
                                 Append(g1.combat_log, <<"hits", target_robot, tx, ty>>)]
                         ELSE g1
               IN IF was_alive /\ ~ is_alive(g2.robots[target_robot])
                  THEN handle_robot_death(g2, target_robot)
                  ELSE g2
          ELSE fire_scan_anyone(g, i, sx, sy, dx, dy, distance + 1, damage, logs)

\* one direction of GameState._fire_row / _fire_column: the scan from the
\* shooter's cell (sx, sy) along (dx, dy), from the given distance on;
\* logs tells whether this copy of the loop appends the hit to the log
RECURSIVE fire_scan(_, _, _, _, _, _, _, _, _)
fire_scan(g, i, sx, sy, dx, dy, distance, damage, logs) ==
  IF distance > g.proximity_distance THEN g
  ELSE LET tx == sx + dx * distance
           ty == sy + dy * distance
       IN IF ~ is_valid_position(tx, ty) THEN g
          ELSE IF ~ is_passable(g, tx, ty) THEN g
          ELSE IF /\ <<tx, ty>> \in DOMAIN g.arobots
                  /\ g.robots[g.arobots[<<tx, ty>>]].player_id # g.robots[i].player_id
          THEN LET target_robot == g.arobots[<<tx, ty>>]
                   was_alive == is_alive(g.robots[target_robot])
                   g1 == take_damage(g, target_robot, damage)
                   g2 == IF logs
                         THEN [g1 EXCEPT !.combat_log =
                                 Append(g1.combat_log, <<"hits", target_robot, tx, ty>>)]
                         ELSE g1
               IN IF was_alive /\ ~ is_alive(g2.robots[target_robot])
                  THEN handle_robot_death(g2, target_robot)
                  ELSE g2
          ELSE fire_scan(g, i, sx, sy, dx, dy, distance + 1, damage, logs)

\* GameState._fire_row
fire_row(g, i) ==
  LET robot_x == g.robots[i].x
      robot_y == g.robots[i].y
      damage == get_damage("FR")
      g0 == [g EXCEPT !.combat_log = Append(g.combat_log, <<"fires", i, robot_x, robot_y>>)]
      g1 == fire_scan(g0, i, robot_x, robot_y, -1, 0, 1, damage, TRUE)
  IN fire_scan(g1, i, robot_x, robot_y, 1, 0, 1, damage, TRUE)

\* GameState._fire_column
fire_column(g, i) ==
  LET robot_x == g.robots[i].x
      robot_y == g.robots[i].y
      damage == get_damage("FC")
      g0 == [g EXCEPT !.combat_log = Append(g.combat_log, <<"fires", i, robot_x, robot_y>>)]
      g1 == fire_scan(g0, i, robot_x, robot_y, 0, -1, 1, damage, TRUE)
  IN fire_scan(g1, i, robot_x, robot_y, 0, 1, 1, damage, FALSE)

\* history: the arena and roster of a game
Snap(g) == [robots |-> g.robots, grid |-> g.grid, mines |-> g.mines, arobots |-> g.arobots]

\* history: the effect that a dispatch reaches, the direction it is given and
\* the game right before it
Reached(g, leaf, dir) ==
  [g EXCEPT !.last.leaf = leaf, !.last.dir = dir, !.last.before = Snap(g)]

\* history: the game right after that effect
Done(g) == [g EXCEPT !.last.after = Snap(g)]

RECURSIVE execute_single_instruction(_, _, _, _)
RECURSIVE execute_proximity_test_conditional(_, _, _, _)

\* GameState._execute_single_instruction; random_direction is the draw of
\* InstructionSet.get_random_direction
execute_single_instruction(g, i, instruction, random_direction) ==
  LET t == instruction.type IN
  IF t = "DM"
  THEN Done(move_robot(Reached(g, t, instruction.direction), i, instruction.direction))
  ELSE IF t = "RM"
  THEN Done(move_robot(Reached(g, t, random_direction), i, random_direction))
  ELSE IF t = "IN"
  THEN Done(set_invisible(Reached(g, t, NoDirection), i, 1))
  ELSE IF t = "MI"
  THEN Done(place_mine_at_robot(Reached(g, t, NoDirection), i))
  ELSE IF t = "PM"
  THEN LET target_direction == get_direction_to_nearest_enemy(g, i) IN
       IF target_direction # NoDirection
       THEN Done(move_robot(Reached(g, t, target_direction), i, target_direction))
       ELSE Done(Reached(g, t, NoDirection))
  ELSE IF t = "AM"
  THEN LET flee_direction == get_direction_from_nearest_enemy(g, i) IN
       IF flee_direction # NoDirection
       THEN Done(move_robot(Reached(g, t, flee_direction), i, flee_direction))
       ELSE Done(Reached(g, t, NoDirection))
  ELSE IF t = "PT"
  THEN execute_proximity_test_conditional(g, i, instruction, random_direction)
  ELSE IF t = "FR"
  THEN Done(fire_row(Reached(g, t, NoDirection), i))
  ELSE IF t = "FC"
  THEN Done(fire_column(Reached(g, t, NoDirection), i))
  ELSE g

\* execute_proximity_test_conditional that freezes the unit when the chosen
\* branch does not parse or cannot be paid
execute_proximity_test_conditional_freeze(g, i, pt_instruction, random_direction) ==
  IF Len(pt_instruction.parameter) # 2 THEN g
  ELSE LET proximity_result == check_proximity(g, i)
           chosen_action_str == IF proximity_result
                                THEN pt_instruction.parameter[1]
                                ELSE pt_instruction.parameter[2]
           chosen_instruction == parse_instruction(chosen_action_str)
           g0 == [g EXCEPT !.last.tests = Append(g.last.tests, proximity_result)]
       IN IF chosen_instruction.ok
          THEN LET u == use_energy(g0, i, get_energy_cost(chosen_instruction.type)) IN
               IF u.ok
               THEN execute_single_instruction(u.g, i, chosen_instruction, random_direction)
               ELSE [g0 EXCEPT !.robots[i].status = FROZEN]
          ELSE [g0 EXCEPT !.robots[i].status = FROZEN]

\* execute_proximity_test_conditional that runs the other branch as well,
\* after the chosen one
execute_proximity_test_conditional_both(g, i, pt_instruction, random_direction) ==
  IF Len(pt_instruction.parameter) # 2 THEN g
  ELSE LET proximity_result == check_proximity(g, i)
           chosen_action_str == IF proximity_result
                                THEN pt_instruction.parameter[1]
                                ELSE pt_instruction.parameter[2]
           other_action_str == IF proximity_result
                               THEN pt_instruction.parameter[2]
                               ELSE pt_instruction.parameter[1]
           chosen_instruction == parse_instruction(chosen_action_str)
           other_instruction == parse_instruction(other_action_str)
           g0 == [g EXCEPT !.last.tests = Append(g.last.tests, proximity_result)]
           g1 == IF chosen_instruction.ok
                 THEN LET u == use_energy(g0, i, get_energy_cost(chosen_instruction.type)) IN
                      IF u.ok
                      THEN execute_single_instruction(u.g, i, chosen_instruction,
                                                      random_direction)
                      ELSE g0
                 ELSE g0
       IN IF other_instruction.ok
          THEN LET u == use_energy(g1, i, get_energy_cost(other_instruction.type)) IN
               IF u.ok
               THEN execute_single_instruction(u.g, i, other_instruction, random_direction)
               ELSE g1
          ELSE g1

\* GameState._execute_proximity_test_conditional
execute_proximity_test_conditional(g, i, pt_instruction, random_direction) ==
  IF Len(pt_instruction.parameter) # 2 THEN g
  ELSE LET proximity_result == check_proximity(g, i)
           chosen_action_str == IF proximity_result
                                THEN pt_instruction.parameter[1]
                                ELSE pt_instruction.parameter[2]
           chosen_instruction == parse_instruction(chosen_action_str)
           g0 == [g EXCEPT !.last.tests = Append(g.last.tests, proximity_result)]
       IN IF chosen_instruction.ok
          THEN LET u == use_energy(g0, i, get_energy_cost(chosen_instruction.type)) IN
               IF u.ok
               THEN execute_single_instruction(u.g, i, chosen_instruction, random_direction)
               ELSE g0
          ELSE g0

\* execute_emergency_routine that leaves a unit that cannot afford its
\* emergency instruction as it is
execute_emergency_routine_idle(g, i, random_direction) ==
  IF g.robots[i].emergency_action = NoString THEN g
  ELSE LET emergency_instruction == parse_instruction(g.robots[i].emergency_action) IN
       IF ~ emergency_instruction.ok THEN g
       ELSE LET emergency_cost == get_energy_cost(emergency_instruction.type) IN
            IF g.robots[i].energy >= emergency_cost
            THEN LET was_alive == is_alive(g.robots[i])
                     u == use_energy(g, i, emergency_cost)
                 IN IF u.ok
                    THEN LET g1 == execute_single_instruction(u.g, i, emergency_instruction,
                                                              random_direction)
                         IN IF was_alive /\ ~ is_alive(g1.robots[i])
                            THEN handle_robot_death(g1, i)
                            ELSE g1
                    ELSE g
            ELSE g

\* GameState._execute_emergency_routine
execute_emergency_routine(g, i, random_direction) ==
  IF g.robots[i].emergency_action = NoString THEN g
  ELSE LET emergency_instruction == parse_instruction(g.robots[i].emergency_action) IN
       IF ~ emergency_instruction.ok THEN g
       ELSE LET emergency_cost == get_energy_cost(emergency_instruction.type) IN
            IF g.robots[i].energy >= emergency_cost
            THEN LET was_alive == is_alive(g.robots[i])
                     u == use_energy(g, i, emergency_cost)
                 IN IF u.ok
                    THEN LET g1 == execute_single_instruction(u.g, i, emergency_instruction,
                                                              random_direction)
                         IN IF was_alive /\ ~ is_alive(g1.robots[i])
                            THEN handle_robot_death(g1, i)
                            ELSE g1
                    ELSE g
            ELSE [g EXCEPT !.robots[i].status = FROZEN]

\* history: what a dispatch of robot i starts from
NoSnap == [robots |-> <<>>, grid |-> <<>>, mines |-> <<>>, arobots |-> <<>>]

NoLast == [actor |-> NoRobot, route |-> "none", leaf |-> "none", dir |-> NoDirection,
           paid |-> 0, tests |-> <<>>, before |-> NoSnap, after |-> NoSnap]

Routed(g, route) == [g EXCEPT !.last.route = route]

\* execute_robot_instruction that also charges the programmed instruction,
\* when affordable, before it hands over to the emergency routine
execute_robot_instruction_both(g0, i, random_direction) ==
  LET g == [g0 EXCEPT !.last = [NoLast EXCEPT !.actor = i]]
      robot == g.robots[i]
  IN IF ~ is_alive(robot) THEN Routed(g, "dead")
     ELSE IF ~ can_execute(robot) THEN Routed(g, "frozen")
     ELSE LET instruction_str == get_current_instruction(robot) IN
          IF instruction_str = NoString THEN Routed(g, "absent")
          ELSE LET instruction == parse_instruction(instruction_str) IN
               IF ~ instruction.ok THEN Routed(g, "invalid")
               ELSE LET energy_cost == get_energy_cost(instruction.type) IN
                    IF \/ robot.energy < energy_cost
                       \/ robot.energy <= robot.emergency_energy_threshold
                    THEN IF robot.emergency_action # NoString
                         THEN execute_emergency_routine(
                                use_energy(Routed(g, "emergency"), i, energy_cost).g, i,
                                random_direction)
                         ELSE [Routed(g, "freeze") EXCEPT !.robots[i].status = FROZEN]
                    ELSE LET was_alive == is_alive(robot)
                             u == use_energy(Routed(g, "normal"), i, energy_cost)
                         IN IF ~ u.ok THEN u.g
                            ELSE IF was_alive /\ ~ is_alive(u.g.robots[i])
                            THEN handle_robot_death(u.g, i)
                            ELSE execute_single_instruction(u.g, i, instruction,
                                                            random_direction)

\* execute_robot_instruction that tests the energy before the instruction is
\* parsed, so that a unit low on energy is routed to the emergency routine
\* whatever its instruction string
execute_robot_instruction_unparsed(g0, i, random_direction) ==
  LET g == [g0 EXCEPT !.last = [NoLast EXCEPT !.actor = i]]
      robot == g.robots[i]
  IN IF ~ is_alive(robot) THEN Routed(g, "dead")
     ELSE IF ~ can_execute(robot) THEN Routed(g, "frozen")
     ELSE IF robot.energy <= robot.emergency_energy_threshold
     THEN IF robot.emergency_action # NoString
          THEN execute_emergency_routine(Routed(g, "emergency"), i, random_direction)
          ELSE [Routed(g, "freeze") EXCEPT !.robots[i].status = FROZEN]
     ELSE LET instruction_str == get_current_instruction(robot) IN
          IF instruction_str = NoString THEN Routed(g, "absent")
          ELSE LET instruction == parse_instruction(instruction_str) IN
               IF ~ instruction.ok THEN Routed(g, "invalid")
               ELSE LET energy_cost == get_energy_cost(instruction.type)
                        was_alive == is_alive(robot)
                        u == use_energy(Routed(g, "normal"), i, energy_cost)
                    IN IF ~ u.ok THEN u.g
                       ELSE IF was_alive /\ ~ is_alive(u.g.robots[i])
                       THEN handle_robot_death(u.g, i)
                       ELSE execute_single_instruction(u.g, i, instruction,
                                                       random_direction)

\* execute_robot_instruction without the tests that skip a Dead or Frozen
\* unit
execute_robot_instruction_unchecked(g0, i, random_direction) ==
  LET g == [g0 EXCEPT !.last = [NoLast EXCEPT !.actor = i]]
      robot == g.robots[i]
      instruction_str == get_current_instruction(robot)
  IN IF instruction_str = NoString THEN Routed(g, "absent")
     ELSE LET instruction == parse_instruction(instruction_str) IN
          IF ~ instruction.ok THEN Routed(g, "invalid")
          ELSE LET energy_cost == get_energy_cost(instruction.type) IN
               IF \/ robot.energy < energy_cost
                  \/ robot.energy <= robot.emergency_energy_threshold
               THEN IF robot.emergency_action # NoString
                    THEN execute_emergency_routine(Routed(g, "emergency"), i,
                                                   random_direction)
                    ELSE [Routed(g, "freeze") EXCEPT !.robots[i].status = FROZEN]
               ELSE LET was_alive == is_alive(robot)
                        u == use_energy(Routed(g, "normal"), i, energy_cost)
                    IN IF ~ u.ok THEN u.g
                       ELSE IF was_alive /\ ~ is_alive(u.g.robots[i])
                       THEN handle_robot_death(u.g, i)
                       ELSE execute_single_instruction(u.g, i, instruction,
                                                       random_direction)

\* the body of the loop of GameState._execute_robot_instructions for robot i
execute_robot_instruction(g0, i, random_direction) ==
  LET g == [g0 EXCEPT !.last = [NoLast EXCEPT !.actor = i]]
      robot == g.robots[i]
  IN IF ~ is_alive(robot) THEN Routed(g, "dead")
     ELSE IF ~ can_execute(robot) THEN Routed(g, "frozen")
     ELSE LET instruction_str == get_current_instruction(robot) IN
          IF instruction_str = NoString THEN Routed(g, "absent")
          ELSE LET instruction == parse_instruction(instruction_str) IN
               IF ~ instruction.ok THEN Routed(g, "invalid")
               ELSE LET energy_cost == get_energy_cost(instruction.type) IN
                    IF \/ robot.energy < energy_cost
                       \/ robot.energy <= robot.emergency_energy_threshold
                    THEN IF robot.emergency_action # NoString
                         THEN execute_emergency_routine(Routed(g, "emergency"), i,
                                                        random_direction)
                         ELSE [Routed(g, "freeze") EXCEPT !.robots[i].status = FROZEN]
                    ELSE LET was_alive == is_alive(robot)
                             u == use_energy(Routed(g, "normal"), i, energy_cost)
                         IN IF ~ u.ok THEN u.g
                            ELSE IF was_alive /\ ~ is_alive(u.g.robots[i])
                            THEN handle_robot_death(u.g, i)
                            ELSE execute_single_instruction(u.g, i, instruction,
                                                            random_direction)

\* determine_winner that takes the first living unit of the roster
determine_winner_first(g) ==
  LET living_robots == get_living_robots(g) IN
  IF Len(living_robots) = 0 THEN NoPlayer
  ELSE g.robots[living_robots[1]].player_id

\* determine_winner that takes the last of the units with the highest energy
determine_winner_last(g) ==
  LET living_robots == get_living_robots(g) IN
  IF Len(living_robots) = 0 THEN NoPlayer
  ELSE IF Len(living_robots) = 1 THEN g.robots[living_robots[1]].player_id
  ELSE LET winner ==
             CHOOSE k \in 1 .. Len(living_robots) :
               /\ \A j \in 1 .. Len(living_robots) :
                    g.robots[living_robots[j]].energy <= g.robots[living_robots[k]].energy
               /\ \A j \in k + 1 .. Len(living_robots) :
                    g.robots[living_robots[j]].energy < g.robots[living_robots[k]].energy
       IN g.robots[living_robots[winner]].player_id

\* GameState._determine_winner: the winner id
determine_winner(g) ==
  LET living_robots == get_living_robots(g) IN
  IF Len(living_robots) = 0 THEN NoPlayer
  ELSE IF Len(living_robots) = 1 THEN g.robots[living_robots[1]].player_id
  ELSE LET winner ==
             CHOOSE k \in 1 .. Len(living_robots) :
               /\ \A j \in 1 .. Len(living_robots) :
                    g.robots[living_robots[j]].energy <= g.robots[living_robots[k]].energy
               /\ \A j \in 1 .. k - 1 :
                    g.robots[living_robots[j]].energy < g.robots[living_robots[k]].energy
       IN g.robots[living_robots[winner]].player_id

(* ---------------------------------------------------------------------- *)
(* Roster inputs: instruction strings and the units a game is set up with  *)
(* ---------------------------------------------------------------------- *)
S_FR == <<"F", "R">>
S_FC == <<"F", "C">>
S_MI == <<"M", "I">>
S_IN == <<"I", "N">>
S_RM == <<"R", "M">>
S_PM == <<"P", "M">>
S_AM == <<"A", "M">>
S_DM_E == <<"D", "M", "(", "E", ")">>
S_DM_W == <<"D", "M", "(", "W", ")">>
S_PT_IN_IN == <<"P", "T", "(", "I", "N", ",", " ", "I", "N", ")">>
S_PT_FR_DM == <<"p", "t", "(", "f", "r", ",", "d", "m", "(", "w", ")", ")">>

S_XX == <<"X", "X">>
S_DM_X == <<"D", "M", "(", "X", ")">>
S_PT_FR == <<"P", "T", "(", "F", "R", ")">>
S_PT_IN_XX == <<"P", "T", "(", "I", "N", ",", "X", "X", ")">>
S_PT_PT_FR_MI_DM == <<"P", "T", "(", "P", "T", "(", "F", "R", ",", "M", "I", ")", ",",
                      "D", "M", "(", "E", ")", ")">>
S_DM_NW == <<"D", "M", "(", "N", "W", ")">>

\* one entry of robot_configs with the program and emergency action loaded
\* into the robot after add_robot
Unit(player_id, energy, program, emergency_action) ==
  [player_id |-> player_id, energy |-> energy, program |-> program,
   emergency_action |-> emergency_action]

Shooter(p) == Unit(p, 450, <<S_FR, S_FC>>, NoString)
Miner(p) == Unit(p, 450, <<S_MI, S_DM_E, S_DM_W>>, S_RM)
Ghost(p) == Unit(p, 200, <<S_PM, S_AM>>, S_IN)
Walker(p) == Unit(p, 250, <<S_DM_E, S_PT_FR_DM>>, S_DM_E)
Spent(p) == Unit(p, 204, <<S_DM_W>>, S_PT_IN_IN)
Sniper(p) == Unit(p, 310, <<S_FR, S_FC>>, S_IN)
Sentry(p) == Unit(p, 450, <<S_PT_FR_DM>>, NoString)

Mute(p) == Unit(p, 150, <<>>, S_DM_E)
Garbled(p) == Unit(p, 205, <<S_XX, S_DM_X, S_PT_FR>>, S_DM_E)
Jammed(p) == Unit(p, 450, <<S_DM_X, S_XX>>, NoString)
Hedger(p) == Unit(p, 150, <<S_FR>>, S_PT_IN_XX)
Nester(p) == Unit(p, 450, <<S_PT_PT_FR_MI_DM>>, NoString)
Hunter(p) == Unit(p, 450, <<S_PM, S_AM>>, NoString)
Cloak(p) == Unit(p, 450, <<S_IN, S_DM_E>>, NoString)
Stalled(p) == Unit(p, 100, <<S_FR>>, NoString)
Layer(p) == Unit(p, 650, <<S_MI>>, NoString)
Runner(p) == Unit(p, 450, <<S_DM_E>>, NoString)
Cutter(p) == Unit(p, 450, <<S_DM_NW>>, NoString)
Numb(p) == Unit(p, 205, <<S_FR>>, NoString)
Brink(p) == Unit(p, 415, <<S_PT_IN_IN>>, NoString)
Verge(p) == Unit(p, 408, <<S_PT_IN_IN>>, S_PT_IN_IN)

\* the rosters a game is set up with
RobotConfigs ==
  { <<Shooter(1), Walker(2), Ghost(2)>>,
    <<Shooter(1), Miner(1), Walker(2)>>,
    <<Miner(1), Walker(2), Shooter(2)>>,
    <<Ghost(1), Shooter(2), Spent(1)>> }

\* the roster of the games whose arena is set up with obstacles
ArenaConfigs ==
  { <<Sniper(1), Sentry(2)>> }

\* the rosters of the games whose units have empty or unparseable programs,
\* conditional emergency instructions, or pursue, hide, lay mines, move to a
\* common cell, fire at a unit that froze, look past a unit of their side,
\* pay the dearest instruction right above the emergency threshold and fall
\* back on a plain emergency instruction
EdgeConfigs ==
  { <<Cloak(1), Stalled(1), Hunter(2)>>,
    <<Runner(1), Cutter(2)>>,
    <<Numb(1), Shooter(2)>>,
    <<Brink(1), Verge(2)>>,
    <<Sentry(1), Layer(1), Layer(2)>>,
    <<Cloak(1), Hunter(2)>>,
    <<Layer(1), Hedger(2)>>,
    <<Nester(1), Mute(2)>>,
    <<Garbled(1), Jammed(2)>>,
    <<Walker(1), Sniper(2)>> }

\* the roster of the games in which each unit tests for the other across
\* obstacles
SightConfigs ==
  { <<Sentry(1), Sentry(2)>> }

(* ---------------------------------------------------------------------- *)
(* State                                                                   *)
(* ---------------------------------------------------------------------- *)
VARIABLES
  robot_configs,  \* the roster input of main()
  proximity_distance, \* GameState.proximity_distance
  num_obstacles,  \* GameState.num_obstacles
  phase,          \* GameState.phase
  current_turn,   \* GameState.current_turn
  winner_id,      \* GameState.winner_id
  robots,         \* GameState.robots
  grid,           \* Arena.grid
  mines,          \* Arena.mines
  arobots,        \* Arena.robots
  combat_log,     \* GameState.combat_log
  turn_pc,        \* position inside execute_turn: "idle" or "dispatch"
  living_robots,  \* the local living_robots of execute_turn
  idx,            \* index of the loop of _execute_robot_instructions
  returned,       \* what the last call of execute_turn returned (FALSE before any)
  died,           \* history: robots whose status was ever set to DEAD
  last            \* history: what the last dispatch did

vars == <<robot_configs, proximity_distance, num_obstacles, phase, current_turn, winner_id, robots, grid, mines,
          arobots, combat_log, turn_pc, living_robots, idx, returned, died, last>>

\* the game as a value
Game ==
  [robots |-> robots, grid |-> grid, mines |-> mines, arobots |-> arobots,
   combat_log |-> combat_log, proximity_distance |-> proximity_distance,
   died |-> died, last |-> last]

SetGame(g) ==
  /\ robots' = g.robots
  /\ grid' = g.grid
  /\ mines' = g.mines
  /\ arobots' = g.arobots
  /\ combat_log' = g.combat_log
  /\ died' = g.died
  /\ last' = g.last

\* GameState.__init__
Init ==
  /\ robot_configs \in RobotConfigs
  /\ proximity_distance = ProximityDistance
  /\ num_obstacles = 0
  /\ phase = SETUP
  /\ current_turn = 0
  /\ winner_id = NoPlayer
  /\ robots = <<>>
  /\ grid = [p \in Positions |-> EMPTY]
  /\ mines = EmptyMap
  /\ arobots = EmptyMap
  /\ combat_log = <<>>
  /\ turn_pc = "idle"
  /\ living_robots = <<>>
  /\ idx = 0
  /\ returned = FALSE
  /\ died = {}
  /\ last = NoLast

\* GameState.add_robot for the next unit of the roster, at the cell drawn by
\* Arena.get_random_empty_position, followed by the loading of its program
\* and emergency action; as in main(), robots are added before the battle
AddRobot ==
  /\ turn_pc = "idle"
  /\ phase = SETUP
  /\ Len(robots) < Len(robot_configs)
  /\ LET c == robot_configs[Len(robots) + 1]
         used_positions == {get_position(robots[k]) : k \in 1 .. Len(robots)}
     IN \E pos \in Positions :
          /\ pos \notin used_positions
          /\ is_passable(Game, pos[1], pos[2])
          /\ robots' = Append(robots,
                              [Robot(c.player_id, pos[1], pos[2], c.energy)
                                 EXCEPT !.program = c.program,
                                        !.emergency_action = c.emergency_action])
          /\ arobots' = MapPut(arobots, pos, Len(robots) + 1)
  /\ UNCHANGED <<robot_configs, proximity_distance, num_obstacles,
                 phase, current_turn, winner_id, grid, mines,
                 combat_log, turn_pc, living_robots, idx, returned, died, last>>

\* GameState.start_programming
StartProgramming ==
  /\ turn_pc = "idle"
  /\ phase' = IF phase = SETUP THEN PROGRAMMING ELSE phase
  /\ UNCHANGED <<robot_configs, proximity_distance, num_obstacles,
                 current_turn, winner_id, robots, grid, mines,
                 arobots, combat_log, turn_pc, living_robots, idx, returned, died, last>>

\* start_battle without the test of the phase
StartBattle_always ==
  /\ turn_pc = "idle"
  /\ phase' = BATTLE
  /\ current_turn' = 0
  /\ UNCHANGED <<robot_configs, proximity_distance, num_obstacles,
                 winner_id, robots, grid, mines,
                 arobots, combat_log, turn_pc, living_robots, idx, returned, died, last>>

\* GameState.start_battle
StartBattle ==
  /\ turn_pc = "idle"
  /\ IF phase \in {SETUP, PROGRAMMING}
     THEN phase' = BATTLE /\ current_turn' = 0
     ELSE UNCHANGED <<phase, current_turn>>
  /\ UNCHANGED <<robot_configs, proximity_distance, num_obstacles,
                 winner_id, robots, grid, mines,
                 arobots, combat_log, turn_pc, living_robots, idx, returned, died, last>>

\* execute_turn without the test of the turn limit
ExecuteTurnBegin_unlimited ==
  /\ turn_pc = "idle"
  /\ IF phase # BATTLE
     THEN /\ returned' = FALSE
          /\ UNCHANGED <<phase, winner_id, robots, combat_log, turn_pc,
                         living_robots, idx>>
     ELSE IF Len(get_living_robots(Game)) <= 1
     THEN /\ winner_id' = determine_winner(Game)
          /\ phase' = FINISHED
          /\ returned' = FALSE
          /\ UNCHANGED <<robots, combat_log, turn_pc, living_robots, idx>>
     ELSE /\ combat_log' = <<>>
          /\ robots' = [k \in 1 .. Len(robots) |->
                          IF is_alive(robots[k])
                          THEN update_invisibility(robots[k])
                          ELSE robots[k]]
          /\ living_robots' = get_living_robots(Game)
          /\ idx' = 1
          /\ turn_pc' = "dispatch"
          /\ UNCHANGED <<phase, winner_id, returned>>
  /\ UNCHANGED <<robot_configs, proximity_distance, num_obstacles,
                 current_turn, grid, mines, arobots, died, last>>

\* GameState.execute_turn up to the call of _execute_robot_instructions
ExecuteTurnBegin ==
  /\ turn_pc = "idle"
  /\ IF phase # BATTLE
     THEN /\ returned' = FALSE
          /\ UNCHANGED <<phase, winner_id, robots, combat_log, turn_pc,
                         living_robots, idx>>
     ELSE IF Len(get_living_robots(Game)) <= 1 \/ current_turn >= MaxTurns
     THEN /\ winner_id' = determine_winner(Game)
          /\ phase' = FINISHED
          /\ returned' = FALSE
          /\ UNCHANGED <<robots, combat_log, turn_pc, living_robots, idx>>
     ELSE /\ combat_log' = <<>>
          /\ robots' = [k \in 1 .. Len(robots) |->
                          IF is_alive(robots[k])
                          THEN update_invisibility(robots[k])
                          ELSE robots[k]]
          /\ living_robots' = get_living_robots(Game)
          /\ idx' = 1
          /\ turn_pc' = "dispatch"
          /\ UNCHANGED <<phase, winner_id, returned>>
  /\ UNCHANGED <<robot_configs, proximity_distance, num_obstacles,
                 current_turn, grid, mines, arobots, died, last>>

\* one iteration of the loop of GameState._execute_robot_instructions
Dispatch ==
  /\ turn_pc = "dispatch"
  /\ idx <= Len(living_robots)
  /\ \E random_direction \in Directions :
       SetGame(execute_robot_instruction(Game, living_robots[idx], random_direction))
  /\ idx' = idx + 1
  /\ UNCHANGED <<robot_configs, proximity_distance, num_obstacles,
                 phase, current_turn, winner_id, turn_pc,
                 living_robots, returned>>

\* execute_turn that publishes the leading side as winner after every turn
ExecuteTurnEnd_leader ==
  /\ turn_pc = "dispatch"
  /\ idx > Len(living_robots)
  /\ robots' = [k \in 1 .. Len(robots) |->
                  IF (\E j \in 1 .. Len(living_robots) : living_robots[j] = k)
                     /\ can_execute(robots[k])
                  THEN advance_program_counter(robots[k])
                  ELSE robots[k]]
  /\ current_turn' = current_turn + 1
  /\ winner_id' = determine_winner(Game)
  /\ returned' = TRUE
  /\ turn_pc' = "idle"
  /\ UNCHANGED <<robot_configs, proximity_distance, num_obstacles,
                 phase, grid, mines, arobots,
                 combat_log, living_robots, idx, died, last>>

\* GameState.execute_turn after _execute_robot_instructions returned
ExecuteTurnEnd ==
  /\ turn_pc = "dispatch"
  /\ idx > Len(living_robots)
  /\ robots' = [k \in 1 .. Len(robots) |->
                  IF (\E j \in 1 .. Len(living_robots) : living_robots[j] = k)
                     /\ can_execute(robots[k])
                  THEN advance_program_counter(robots[k])
                  ELSE robots[k]]
  /\ current_turn' = current_turn + 1
  /\ returned' = TRUE
  /\ turn_pc' = "idle"
  /\ UNCHANGED <<robot_configs, proximity_distance, num_obstacles,
                 phase, winner_id, grid, mines, arobots,
                 combat_log, living_robots, idx, died, last>>

Next ==
  \/ AddRobot
  \/ StartProgramming
  \/ StartBattle
  \/ ExecuteTurnBegin
  \/ Dispatch
  \/ ExecuteTurnEnd

Spec == Init /\ [][Next]_vars

\* GameState.__init__ followed by main()'s configuration of a game with
\* obstacles and a proximity distance of its own
ArenaInit ==
  /\ robot_configs \in ArenaConfigs
  /\ proximity_distance \in ProximityDistance - 1 .. ProximityDistance
  /\ num_obstacles = MaxObstacles
  /\ phase = SETUP
  /\ current_turn = 0
  /\ winner_id = NoPlayer
  /\ robots = <<>>
  /\ grid = [p \in Positions |-> EMPTY]
  /\ mines = EmptyMap
  /\ arobots = EmptyMap
  /\ combat_log = <<>>
  /\ turn_pc = "idle"
  /\ living_robots = <<>>
  /\ idx = 0
  /\ returned = FALSE
  /\ died = {}
  /\ last = NoLast

\* GameState.setup_arena, called as in main(): once, after the robots are
\* added and before the battle is started
SetupArena ==
  /\ turn_pc = "idle"
  /\ phase = SETUP
  /\ Len(robots) = Len(robot_configs)
  /\ \A p \in Positions : grid[p] # OBSTACLE
  /\ grid' \in generate_obstacles(Game, num_obstacles,
                                  {get_position(robots[k]) : k \in 1 .. Len(robots)})
  /\ UNCHANGED <<robot_configs, proximity_distance, num_obstacles,
                 phase, current_turn, winner_id, robots, mines, arobots,
                 combat_log, turn_pc, living_robots, idx, returned, died, last>>

ArenaNext ==
  \/ AddRobot
  \/ SetupArena
  \/ StartProgramming
  \/ StartBattle
  \/ ExecuteTurnBegin
  \/ Dispatch
  \/ ExecuteTurnEnd

ArenaSpec == ArenaInit /\ [][ArenaNext]_vars

\* GameState.__init__ followed by main()'s configuration of a game with one
\* of the rosters of EdgeConfigs and no obstacles
EdgeInit ==
  /\ robot_configs \in EdgeConfigs
  /\ proximity_distance = ProximityDistance
  /\ num_obstacles = 0
  /\ phase = SETUP
  /\ current_turn = 0
  /\ winner_id = NoPlayer
  /\ robots = <<>>
  /\ grid = [p \in Positions |-> EMPTY]
  /\ mines = EmptyMap
  /\ arobots = EmptyMap
  /\ combat_log = <<>>
  /\ turn_pc = "idle"
  /\ living_robots = <<>>
  /\ idx = 0
  /\ returned = FALSE
  /\ died = {}
  /\ last = NoLast

EdgeSpec == EdgeInit /\ [][Next]_vars

\* GameState.__init__ followed by main()'s configuration of a game with
\* obstacles and a proximity distance that covers an offset of two cells on
\* one axis and one on the other
SightInit ==
  /\ robot_configs \in SightConfigs
  /\ proximity_distance = ProximityDistance + 1
  /\ num_obstacles = MaxObstacles
  /\ phase = SETUP
  /\ current_turn = 0
  /\ winner_id = NoPlayer
  /\ robots = <<>>
  /\ grid = [p \in Positions |-> EMPTY]
  /\ mines = EmptyMap
  /\ arobots = EmptyMap
  /\ combat_log = <<>>
  /\ turn_pc = "idle"
  /\ living_robots = <<>>
  /\ idx = 0
  /\ returned = FALSE
  /\ died = {}
  /\ last = NoLast

SightSpec == SightInit /\ [][ArenaNext]_vars

(* ---------------------------------------------------------------------- *)
(* Properties                                                              *)
(* ---------------------------------------------------------------------- *)
Roster == 1 .. Len(robots)

\* the effects that go through _move_robot
MoveTypes == {"DM", "RM", "PM", "AM"}

\* the effects that go through _fire_row / _fire_column
FireTypes == {"FR", "FC"}

\* the last dispatch reached a move in a direction
MoveReached(l) == l.leaf \in MoveTypes /\ l.dir # NoDirection

\* the cell that move was aimed at
MoveDest(l) ==
  <<l.before.robots[l.actor].x + DirectionValue[l.dir][1],
    l.before.robots[l.actor].y + DirectionValue[l.dir][2]>>

\* the two directions of a fire effect
FireOffsets(leaf) == IF leaf = "FR" THEN {<<-1, 0>>, <<1, 0>>} ELSE {<<0, -1>>, <<0, 1>>}

\* the distance at which robot j stands, in the occupancy mapping of snapshot b,
\* on the ray from robot i along off; 0 when it does not stand on the ray
RayDistance(b, i, off, j) ==
  LET ds == {d \in 1 .. Width + Height :
               /\ <<b.robots[i].x + d * off[1], b.robots[i].y + d * off[2]>> \in DOMAIN b.arobots
               /\ b.arobots[<<b.robots[i].x + d * off[1], b.robots[i].y + d * off[2]>>] = j}
  IN IF ds = {} THEN 0 ELSE CHOOSE d \in ds : TRUE

\* the robots of snapshot b that stand on the ray from robot i along off
OnRay(b, i, off) == {j \in 1 .. Len(b.robots) : RayDistance(b, i, off, j) > 0}

\* the shot from robot i along off reaches robot j: within the radius, and no
\* Obstacle or Wreck up to its cell
ShotReaches(b, i, off, j) ==
  /\ RayDistance(b, i, off, j) \in 1 .. proximity_distance
  /\ \A d \in 1 .. RayDistance(b, i, off, j) :
       is_passable(b, b.robots[i].x + d * off[1], b.robots[i].y + d * off[2])

\* the robot in the first occupied cell that the shot from i along off reaches
FirstOnRay(b, i, off) ==
  LET reached == {j \in OnRay(b, i, off) : ShotReaches(b, i, off, j)}
  IN IF reached = {} THEN NoRobot
     ELSE CHOOSE j \in reached :
            \A k \in reached : RayDistance(b, i, off, j) <= RayDistance(b, i, off, k)

\* the nearest enemy of i that the shot from i along off reaches
FirstEnemyOnRay(b, i, off) ==
  LET reached == {j \in OnRay(b, i, off) :
                    /\ ShotReaches(b, i, off, j)
                    /\ b.robots[j].player_id # b.robots[i].player_id}
  IN IF reached = {} THEN NoRobot
     ELSE CHOOSE j \in reached :
            \A k \in reached : RayDistance(b, i, off, j) <= RayDistance(b, i, off, k)

\* the robots on the ray whose energy the effect changed
Damaged(l, off) ==
  {j \in OnRay(l.before, l.actor, off) :
     l.after.robots[j].energy # l.before.robots[j].energy}

\* C1: every unit's energy is >= 0 in every reachable state, whatever the
\* damage source: damage beyond the remaining energy leaves it at 0.
C1_EnergyNeverNegative == \A k \in Roster : robots[k].energy >= 0

\* C2: Dead is terminal: a unit whose status was set to Dead has status Dead
\* in every later state.
C2_DeadIsTerminal == \A k \in died : robots[k].status = DEAD

\* C3: in every state of a battle a unit is Dead if and only if its energy is 0.
C3_DeadIffZeroEnergy ==
  phase \in {BATTLE, FINISHED} =>
    \A k \in Roster : (robots[k].status = DEAD) <=> (robots[k].energy = 0)

\* C4: at the end of every execute_turn, every unit that became Dead during
\* the battle is absent from the occupancy mapping and the cell at its
\* recorded position is a Wreck.
C4_DeathHandledUniformly ==
  turn_pc = "idle" =>
    \A k \in died :
      /\ \A p \in DOMAIN arobots : arobots[p] # k
      /\ grid[get_position(robots[k])] = DEAD_ROBOT

\* C5: after add_robot and after every execute_turn, every living unit's
\* recorded position is a key of the occupancy mapping that maps to that
\* unit, and no two living units share a position.
C5_OccupancyMatchesRoster ==
  turn_pc = "idle" =>
    /\ \A k \in Roster :
         is_alive(robots[k]) =>
           /\ get_position(robots[k]) \in DOMAIN arobots
           /\ arobots[get_position(robots[k])] = k
    /\ \A j, k \in Roster :
         (j # k /\ is_alive(robots[j]) /\ is_alive(robots[k])) =>
           get_position(robots[j]) # get_position(robots[k])

\* a turn has ended in which a unit moved to another cell, with a dead unit
\* and two living ones in the roster
C5_Witness ==
  /\ turn_pc = "idle"
  /\ phase = BATTLE
  /\ returned = TRUE
  /\ MoveReached(last)
  /\ get_position(last.after.robots[last.actor]) = MoveDest(last)
  /\ \E k \in Roster : ~ is_alive(robots[k])
  /\ Cardinality({k \in Roster : is_alive(robots[k])}) >= 2

\* the move of the last dispatch was aimed at a cell holding a mine of the
\* mover's side
OntoOwnMine(l) ==
  /\ MoveReached(l)
  /\ MoveDest(l) \in DOMAIN l.before.mines
  /\ l.before.mines[MoveDest(l)][1] = l.before.robots[l.actor].player_id * MineIdFactor

\* C6: a move whose destination holds a hazard of the mover's side is
\* rejected: the unit's position and the occupancy mapping are unchanged and
\* the hazard is still there with the same owner and damage.
C6_OwnMineBlocksMove ==
  OntoOwnMine(last) =>
    /\ get_position(last.after.robots[last.actor]) = get_position(last.before.robots[last.actor])
    /\ last.after.arobots = last.before.arobots
    /\ MoveDest(last) \in DOMAIN last.after.mines
    /\ last.after.mines[MoveDest(last)] = last.before.mines[MoveDest(last)]

\* a unit tried to step onto a free cell that holds its own side's mine
C6_Witness ==
  /\ OntoOwnMine(last)
  /\ is_passable(last.before, MoveDest(last)[1], MoveDest(last)[2])
  /\ MoveDest(last) \notin DOMAIN last.before.arobots

\* the move of the last dispatch was aimed at a passable, unoccupied cell
\* holding a mine of another side
OntoEnemyMine(l) ==
  /\ MoveReached(l)
  /\ is_passable(l.before, MoveDest(l)[1], MoveDest(l)[2])
  /\ MoveDest(l) \notin DOMAIN l.before.arobots
  /\ MoveDest(l) \in DOMAIN l.before.mines
  /\ l.before.mines[MoveDest(l)][1] # l.before.robots[l.actor].player_id * MineIdFactor

FriendFirst(l, off) ==
  /\ l.leaf \in FireTypes
  /\ FirstOnRay(l.before, l.actor, off) # NoRobot
  /\ l.before.robots[FirstOnRay(l.before, l.actor, off)].player_id
       = l.before.robots[l.actor].player_id

C10_FireSparesOwnSide ==
  last.leaf \in FireTypes =>
    \A j \in 1 .. Len(last.before.robots) :
      last.before.robots[j].player_id = last.before.robots[last.actor].player_id =>
        /\ last.after.robots[j].energy = last.before.robots[j].energy
        /\ last.after.robots[j].status = last.before.robots[j].status

\* a shot was fired along an axis on which a unit of the shooter's side
\* stands within reach
C10_Witness ==
  /\ last.leaf \in FireTypes
  /\ \E off \in FireOffsets(last.leaf) :
       \E j \in OnRay(last.before, last.actor, off) :
         /\ ShotReaches(last.before, last.actor, off, j)
         /\ last.before.robots[j].player_id = last.before.robots[last.actor].player_id

\* the distance at which robot j is recorded on the ray from robot i along off
\* in snapshot b; 0 when its recorded position is not on the ray
AxisDistance(b, i, off, j) ==
  LET ds == {d \in 1 .. Width + Height :
               get_position(b.robots[j]) =
                 <<b.robots[i].x + d * off[1], b.robots[i].y + d * off[2]>>}
  IN IF ds = {} THEN 0 ELSE CHOOSE d \in ds : TRUE

\* the cells at distance 1 .. d on the ray from robot i along off
RayCells(b, i, off, d) ==
  {<<b.robots[i].x + k * off[1], b.robots[i].y + k * off[2]>> : k \in 1 .. d}

\* an Obstacle or Wreck cell lies on the ray from i along off, up to distance d
RayBlocked(b, i, off, d) ==
  \E c \in RayCells(b, i, off, d) : c \in Positions /\ b.grid[c] \in {OBSTACLE, DEAD_ROBOT}

\* C11: an Obstacle or Wreck cell on the fired axis stops the shot in that
\* direction: a unit standing at or beyond it, even within the radius, keeps
\* its energy and status, and so does a unit beyond the configured radius.
C11_BlockedShotDoesNoDamage ==
  last.leaf \in FireTypes =>
    \A off \in FireOffsets(last.leaf) :
      \A j \in 1 .. Len(last.before.robots) :
        LET d == AxisDistance(last.before, last.actor, off, j) IN
        (d > 0 /\ (d > proximity_distance \/ RayBlocked(last.before, last.actor, off, d)))
          => /\ last.after.robots[j].energy = last.before.robots[j].energy
             /\ last.after.robots[j].status = last.before.robots[j].status

\* a shot was fired at a living enemy that stands within the radius behind an
\* Obstacle cell
C11_Witness ==
  /\ last.leaf \in FireTypes
  /\ \E off \in FireOffsets(last.leaf) :
       \E j \in 1 .. Len(last.before.robots) :
         LET d == AxisDistance(last.before, last.actor, off, j) IN
         /\ d \in 2 .. proximity_distance
         /\ is_alive(last.before.robots[j])
         /\ last.before.robots[j].player_id # last.before.robots[last.actor].player_id
         /\ \E c \in RayCells(last.before, last.actor, off, d - 1) :
              last.before.grid[c] = OBSTACLE

\* the first occupied cell the shot along off reaches holds an Invisible unit
\* of another side
InvisibleEnemyFirst(l, off) ==
  /\ l.leaf \in FireTypes
  /\ FirstOnRay(l.before, l.actor, off) # NoRobot
  /\ l.before.robots[FirstOnRay(l.before, l.actor, off)].player_id
       # l.before.robots[l.actor].player_id
  /\ l.before.robots[FirstOnRay(l.before, l.actor, off)].status = INVISIBLE

TestedInStep(l) == turn_pc = "dispatch" /\ l.actor # NoRobot /\ l.tests # <<>>

\* the units of another side than robot i, not Dead, that stand within the
\* radius of robot i in the roster rs
EnemiesInRadius(rs, i) ==
  {k \in 1 .. Len(rs) :
     /\ rs[k].player_id # rs[i].player_id
     /\ rs[k].status # DEAD
     /\ Abs(rs[k].x - rs[i].x) + Abs(rs[k].y - rs[i].y) <= proximity_distance}

\* C13: proximity detection is false whenever every enemy within the radius
\* is Invisible or Frozen, at any distance.
C13_HiddenUnitsAreNotDetected ==
  [][(idx' = idx + 1 /\ TestedInStep(last')) =>
       ((\A k \in EnemiesInRadius(robots, last'.actor) :
           robots[k].status \in {INVISIBLE, FROZEN})
          => last'.tests[1] = FALSE)]_vars

\* a proximity test was evaluated with an Invisible enemy within the radius
\* and in line of sight
C13_Witness ==
  /\ last.tests # <<>>
  /\ last.before # NoSnap
  /\ \E k \in EnemiesInRadius(last.before.robots, last.actor) :
       /\ last.before.robots[k].status = INVISIBLE
       /\ has_line_of_sight([grid |-> last.before.grid],
                            last.before.robots[last.actor].x,
                            last.before.robots[last.actor].y,
                            last.before.robots[k].x, last.before.robots[k].y)

\* the cells sampled strictly between two cells: for k = 1 .. steps - 1 the
\* cell at the rounded fraction k / steps of the way, steps being the larger
\* of the two coordinate differences
SampledCells(from, to) ==
  LET steps == Max({Abs(to[1] - from[1]), Abs(to[2] - from[2])})
  IN {<<from[1] + PyRound((to[1] - from[1]) * k, steps),
        from[2] + PyRound((to[2] - from[2]) * k, steps)>> : k \in 1 .. steps - 1}

\* no Obstacle or Wreck on the sampled line between two cells of grid gr
LineClear(gr, from, to) ==
  \A c \in SampledCells(from, to) : c \in Positions /\ gr[c] \notin {OBSTACLE, DEAD_ROBOT}

\* the enemies of robot i that a proximity test detects in roster rs on grid gr
Detectable(rs, gr, i) ==
  {k \in EnemiesInRadius(rs, i) :
     /\ rs[k].status \notin {INVISIBLE, FROZEN}
     /\ LineClear(gr, get_position(rs[i]), get_position(rs[k]))}

TurnEnds == turn_pc = "dispatch" /\ turn_pc' = "idle"

\* C15: at the end of every continuing turn the program counter of every unit
\* that is neither Dead nor Frozen after the dispatch advances by exactly one
\* modulo its program length, whatever its instruction did, and the counter
\* of every Dead or Frozen unit is unchanged; no other step changes a counter.
C15_CounterAdvancesOncePerTurn ==
  [][\A k \in Roster :
       robots'[k].program_counter =
         IF TurnEnds /\ robots[k].status \notin {DEAD, FROZEN}
         THEN (robots[k].program_counter + 1) % Len(robots[k].program)
         ELSE robots[k].program_counter]_vars

\* a second turn has ended with a Frozen unit in the roster, a unit routed to
\* the emergency routine last, and a unit whose counter has wrapped around
C15_Witness ==
  /\ turn_pc = "idle"
  /\ returned = TRUE
  /\ current_turn >= 2
  /\ last.route = "emergency"
  /\ \E k \in Roster : robots[k].status = FROZEN /\ Len(robots[k].program) = 2
  /\ \E k \in Roster :
       /\ can_execute(robots[k])
       /\ Len(robots[k].program) = 2
       /\ robots[k].program_counter = 0

\* the step is one iteration of the dispatch loop
DispatchStep == turn_pc = "dispatch" /\ idx' = idx + 1

\* the parsed current instruction of a robot that has a program
Programmed(r) == parse_instruction(get_current_instruction(r))

\* robot r is dispatched able to execute, with a parseable current instruction
\* and energy at or below 210 or below the instruction's cost
LowOnEnergy(r) ==
  /\ r.status \notin {DEAD, FROZEN}
  /\ r.program # <<>>
  /\ Programmed(r).ok
  /\ (r.energy <= 210 \/ r.energy < get_energy_cost(Programmed(r).type))

\* C16: a unit able to execute, with a parseable current instruction, that is
\* dispatched with energy at or below 210 or below the instruction's cost is
\* routed to the emergency routine: any effect that follows is that of its
\* emergency instruction, even when the programmed one is affordable.
C16_LowEnergyRoutesToEmergency ==
  [][(DispatchStep /\ LowOnEnergy(robots[living_robots[idx]])) =>
       LET r == robots[living_robots[idx]]
           em == parse_instruction(r.emergency_action)
       IN /\ last'.actor = living_robots[idx]
          /\ last'.route \in {"emergency", "freeze"}
          /\ last'.leaf # "none" =>
               /\ r.emergency_action # NoString
               /\ em.ok
               /\ (last'.leaf = em.type \/ em.type = "PT")]_vars

\* a unit was dispatched with energy exactly 210 and a programmed instruction
\* it could afford, and ran its emergency instruction of another type instead
C16_Witness ==
  /\ turn_pc = "dispatch"
  /\ last.actor # NoRobot
  /\ last.route = "emergency"
  /\ last.leaf \notin {"none", Programmed(robots[last.actor]).type}
  /\ robots[last.actor].energy + last.paid = 210
  /\ get_energy_cost(Programmed(robots[last.actor]).type) <= 210

\* robot r has no emergency instruction, or cannot afford the one it has
NoUsableEmergency(r) ==
  \/ r.emergency_action = NoString
  \/ /\ parse_instruction(r.emergency_action).ok
     /\ r.energy < get_energy_cost(parse_instruction(r.emergency_action).type)

\* C17: a unit routed to the emergency routine that has no emergency
\* instruction, or less energy than the emergency instruction costs, becomes
\* Frozen; its energy and position, the grid, the hazard mapping, the
\* occupancy mapping and all other units are unchanged.
C17_NoEmergencyFreezes ==
  [][(/\ DispatchStep
      /\ LowOnEnergy(robots[living_robots[idx]])
      /\ NoUsableEmergency(robots[living_robots[idx]])) =>
       /\ robots' = [robots EXCEPT ![living_robots[idx]].status = FROZEN]
       /\ UNCHANGED <<grid, mines, arobots>>]_vars

\* a unit that could not afford its emergency instruction was frozen
C17_Witness ==
  /\ last.actor # NoRobot
  /\ last.route = "emergency"
  /\ last.leaf = "none"
  /\ robots[last.actor].status = FROZEN
  /\ robots[last.actor].emergency_action # NoString
  /\ NoUsableEmergency(robots[last.actor])

\* robot r has an emergency instruction that it can afford
UsableEmergency(r) ==
  /\ r.emergency_action # NoString
  /\ parse_instruction(r.emergency_action).ok
  /\ r.energy >= get_energy_cost(parse_instruction(r.emergency_action).type)

\* the damage of the enemy mine that the move of dispatch l stepped on, if any
MineDamageTaken(l) ==
  IF OntoEnemyMine(l) THEN l.before.mines[MoveDest(l)][2] ELSE 0

\* C18: a unit routed to the emergency routine with an emergency instruction
\* it can afford is charged that instruction's cost and nothing for the
\* programmed one (a ProximityTest emergency instruction charges its own cost
\* and, when a branch runs, the branch's), and the effect that occurs is the
\* emergency instruction's.
C18_EmergencyReplacesProgrammed ==
  [][(/\ DispatchStep
      /\ LowOnEnergy(robots[living_robots[idx]])
      /\ UsableEmergency(robots[living_robots[idx]])) =>
       LET a == living_robots[idx]
           r == robots[a]
           em == parse_instruction(r.emergency_action)
       IN /\ last'.route = "emergency"
          /\ robots'[a].energy = r.energy - last'.paid - MineDamageTaken(last')
          /\ IF em.type = "PT"
             THEN last'.paid = get_energy_cost("PT") + get_energy_cost(last'.leaf)
             ELSE /\ last'.paid = get_energy_cost(em.type)
                  /\ last'.leaf = em.type
                  /\ em.type = "DM" => last'.dir = em.direction]_vars

\* a unit that could afford its programmed instruction ran an emergency
\* instruction of another type instead
C18_Witness ==
  /\ turn_pc = "dispatch"
  /\ last.actor # NoRobot
  /\ last.route = "emergency"
  /\ last.leaf \notin {"none", Programmed(robots[last.actor]).type}
  /\ robots[last.actor].energy + last.paid
       >= get_energy_cost(Programmed(robots[last.actor]).type)

\* C19: for every emergency instruction type, a unit routed to the emergency
\* routine whose energy equals the emergency instruction's cost ends the
\* routine Dead, absent from the occupancy mapping, with a Wreck at its
\* recorded position.
C19_EmergencyAtCostKills ==
  [][(/\ DispatchStep
      /\ LowOnEnergy(robots[living_robots[idx]])
      /\ UsableEmergency(robots[living_robots[idx]])
      /\ robots[living_robots[idx]].energy =
           get_energy_cost(parse_instruction(robots[living_robots[idx]].emergency_action).type)) =>
       LET a == living_robots[idx] IN
       /\ robots'[a].status = DEAD
       /\ \A p \in DOMAIN arobots' : arobots'[p] # a
       /\ grid'[get_position(robots'[a])] = DEAD_ROBOT]_vars

\* the phase changes that a step may make
PhaseMoves ==
  {<<SETUP, PROGRAMMING>>, <<SETUP, BATTLE>>, <<PROGRAMMING, BATTLE>>, <<BATTLE, FINISHED>>}

\* the step leaves the turn counter, the winner, the units and the arena alone
GameUntouched == UNCHANGED <<current_turn, winner_id, robots, grid, mines, arobots>>

\* C20: the phase only moves forward along Setup, Programming, Battle,
\* Finished. Calls outside their phase change nothing: in Programming and in
\* Finished, and in Battle between two turns, a step that keeps the phase
\* leaves turn counter, winner, units and arena unchanged; in Setup the turn
\* counter and winner are unchanged and units are only added; and after any
\* step taken outside Battle the value returned by execute_turn is false.
C20_PhasesOnlyAdvance ==
  [][/\ phase' # phase => <<phase, phase'>> \in PhaseMoves
     /\ (phase' = phase /\ phase \in {PROGRAMMING, FINISHED}) => GameUntouched
     /\ (phase' = phase /\ phase = BATTLE /\ turn_pc = "idle" /\ turn_pc' = "idle")
          => GameUntouched
     /\ (phase' = phase /\ phase = SETUP) =>
          /\ UNCHANGED <<current_turn, winner_id, mines>>
          /\ Len(robots') >= Len(robots)
          /\ SubSeq(robots', 1, Len(robots)) = robots
     /\ phase # BATTLE => returned' = FALSE]_vars

\* a battle of several turns has finished with a winner: every call is now
\* outside its phase
C20_Witness ==
  /\ phase = FINISHED
  /\ turn_pc = "idle"
  /\ current_turn >= 2
  /\ winner_id # NoPlayer
  /\ returned = FALSE

\* the units of the roster that are living
LivingUnits == {k \in Roster : robots[k].status # DEAD}

\* C21: in Finished the winner is none when no unit is living, the side of
\* the sole living unit when exactly one is living, and otherwise the turn
\* limit was reached and the winner is the side of a living unit that no
\* living unit exceeds in energy.
C21_WinnerByLastStandingOrEnergy ==
  phase = FINISHED =>
    IF LivingUnits = {} THEN winner_id = NoPlayer
    ELSE IF Cardinality(LivingUnits) = 1
    THEN \A k \in LivingUnits : winner_id = robots[k].player_id
    ELSE /\ current_turn >= MaxTurns
         /\ \E k \in LivingUnits :
              /\ winner_id = robots[k].player_id
              /\ \A j \in LivingUnits : robots[j].energy <= robots[k].energy

\* a battle finished at the turn limit with living units of two sides, the
\* one with the highest energy standing later in the roster than a living
\* unit of the other side
C21_Witness ==
  /\ phase = FINISHED
  /\ current_turn = MaxTurns
  /\ \E j, k \in LivingUnits :
       /\ j < k
       /\ robots[j].player_id # robots[k].player_id
       /\ \A m \in LivingUnits \ {k} : robots[m].energy < robots[k].energy
       /\ winner_id = robots[k].player_id

\* C22: the winner is absent in every state whose phase is Setup, Programming
\* or Battle; it is written only by the step from Battle into Finished and no
\* later step changes it.
C22_WinnerOnlyOnFinish ==
  /\ [](phase # FINISHED => winner_id = NoPlayer)
  /\ [][winner_id' # winner_id => (phase = BATTLE /\ phase' = FINISHED)]_vars

\* a battle was finished before the turn limit by the death of all units but
\* one, whose side is the winner, and execute_turn was called again
C22_Witness ==
  /\ phase = FINISHED
  /\ current_turn < MaxTurns
  /\ died # {}
  /\ Cardinality(LivingUnits) = 1
  /\ winner_id # NoPlayer
  /\ turn_pc = "idle"

\* C23: the turn counter never exceeds max_turns, and every step taken in
\* Battle is part of a call of execute_turn that either runs a turn (begun
\* below the turn limit, ending with the counter one higher and the value
\* true returned) or goes to Finished with the counter unchanged and the
\* value false returned; a battle is therefore over after at most
\* max_turns + 1 calls.
C23_EveryCallCountsOrFinishes ==
  /\ [](current_turn <= MaxTurns)
  /\ [][phase = BATTLE =>
          \/ /\ turn_pc = "idle" /\ turn_pc' = "dispatch"
             /\ current_turn < MaxTurns
             /\ phase' = BATTLE /\ current_turn' = current_turn
          \/ /\ turn_pc = "dispatch" /\ turn_pc' = "dispatch"
             /\ phase' = BATTLE /\ current_turn' = current_turn
          \/ /\ TurnEnds
             /\ phase' = BATTLE /\ current_turn' = current_turn + 1
             /\ returned' = TRUE
          \/ /\ turn_pc = "idle" /\ turn_pc' = "idle"
             /\ phase' = FINISHED /\ current_turn' = current_turn
             /\ returned' = FALSE]_vars

\* a battle in which a unit died ran max_turns turns and was finished by one
\* more call, with several units still living
C23_Witness ==
  /\ phase = FINISHED
  /\ current_turn = MaxTurns
  /\ returned = FALSE
  /\ died # {}
  /\ Cardinality(LivingUnits) >= 2

\* robot r is able to execute and its current instruction is absent or does
\* not parse
NothingToRun(r) ==
  /\ r.status \notin {DEAD, FROZEN}
  /\ \/ get_current_instruction(r) = NoString
     \/ ~ parse_instruction(get_current_instruction(r)).ok

InstructionStrings(r) ==
  {r.program[j] : j \in 1 .. Len(r.program)}
    \cup (IF r.emergency_action # NoString THEN {r.emergency_action} ELSE {})

\* C25: every ProximityTest that parses has two branches that are themselves
\* valid instructions other than ProximityTest, so that no parsed instruction
\* carries a ProximityTest or an unparseable string as a branch, and no
\* dispatch evaluates more than one proximity test.
C25_BranchesAreValidated ==
  /\ \A k \in Roster :
       \A s \in InstructionStrings(robots[k]) :
         LET instruction == parse_instruction(s) IN
         (instruction.ok /\ instruction.type = "PT") =>
           /\ Len(instruction.parameter) = 2
           /\ \A b \in 1 .. Len(instruction.parameter) :
                /\ instruction.parameter[b] # <<>>
                /\ parse_instruction(instruction.parameter[b]).ok
                /\ parse_instruction(instruction.parameter[b]).type # "PT"
  /\ Len(last.tests) <= 1

\* the ProximityTest that the dispatch of robot r evaluated on route
DispatchedTest(r, route) ==
  parse_instruction(IF route = "emergency" THEN r.emergency_action
                    ELSE get_current_instruction(r))

\* the branch string that a ProximityTest hands over for a test result
ChosenBranch(pt_instruction, proximity_result) ==
  pt_instruction.parameter[IF proximity_result THEN 1 ELSE 2]

\* the branch does not parse, or costs more than the energy given
BranchCannotRun(branch, energy) ==
  \/ ~ parse_instruction(branch).ok
  \/ get_energy_cost(parse_instruction(branch).type) > energy

\* C26: when the branch chosen by a ProximityTest does not parse or costs
\* more than the energy left after the ProximityTest's own cost, the dispatch
\* does nothing more than charge that cost: the unit keeps its position and
\* its status (it is not Frozen; it is Dead only when the cost of the test
\* itself took its last energy), the other units and the hazards are
\* unchanged, and so are grid and occupancy while the unit has energy left.
C26_UnrunnableBranchIsNoOp ==
  [][(/\ DispatchStep
      /\ Len(last'.tests) = 1) =>
       \A a \in {living_robots[idx]} :
       \A left \in {robots[a].energy - get_energy_cost("PT")} :
       \A branch \in {ChosenBranch(DispatchedTest(robots[a], last'.route), last'.tests[1])} :
         BranchCannotRun(branch, left) =>
           /\ robots' = [robots EXCEPT ![a].energy = left,
                                       ![a].status = IF left <= 0 THEN DEAD ELSE @]
           /\ UNCHANGED mines
           /\ left > 0 => UNCHANGED <<grid, arobots>>]_vars

\* a unit evaluated a ProximityTest to true and could not pay the branch: it
\* paid the cost of the test only and is still Alive
C26_Witness ==
  /\ turn_pc = "dispatch"
  /\ last.actor # NoRobot
  /\ last.tests = <<TRUE>>
  /\ last.leaf = "none"
  /\ last.paid = get_energy_cost("PT")
  /\ robots[last.actor].status = ALIVE
  /\ LET branch == ChosenBranch(DispatchedTest(robots[last.actor], last.route), TRUE) IN
     /\ parse_instruction(branch).ok
     /\ get_energy_cost(parse_instruction(branch).type) > robots[last.actor].energy

\* the last dispatch evaluated one ProximityTest and an effect followed
BranchRan(l) == l.actor # NoRobot /\ Len(l.tests) = 1 /\ l.leaf # "none"

\* the branch that the ProximityTest of the last dispatch has to take: the
\* first when a detectable enemy stands in the radius, the second otherwise
DueBranch(l) ==
  parse_instruction(
    ChosenBranch(DispatchedTest(l.before.robots[l.actor], l.route),
                 Detectable(l.before.robots, l.before.grid, l.actor) # {}))

\* C27: a ProximityTest runs exactly one branch, the first when proximity
\* detection is true and the second when it is false: the effect that occurs
\* is that of this branch, with its direction, the unit is charged the cost of
\* the test plus the cost of this branch, and what only the other branch
\* could do does not happen (a branch that is not a move leaves the unit where
\* it is, a branch that does not fire leaves the energy of all other units,
\* a branch that is not Invisibility leaves the unit's status).
C27_ExactlyOneBranch ==
  BranchRan(last) =>
    LET a == last.actor
        chosen == DueBranch(last)
    IN /\ last.tests[1] = (Detectable(last.before.robots, last.before.grid, a) # {})
       /\ chosen.ok
       /\ last.leaf = chosen.type
       /\ last.paid = get_energy_cost("PT") + get_energy_cost(chosen.type)
       /\ chosen.type = "DM" => last.dir = chosen.direction
       /\ last.leaf \notin MoveTypes =>
            get_position(last.after.robots[a]) = get_position(last.before.robots[a])
       /\ last.leaf \notin FireTypes =>
            \A j \in 1 .. Len(last.before.robots) :
              j # a => last.after.robots[j] = last.before.robots[j]
       /\ last.leaf # "IN" =>
            (last.after.robots[a].status = last.before.robots[a].status
               \/ MineDamageTaken(last) > 0)
       /\ last.leaf # "MI" => DOMAIN last.after.mines \subseteq DOMAIN last.before.mines

\* a ProximityTest was true and its first branch, a fire, damaged an enemy;
\* the unit was charged 104 and did not make the move of its second branch
C27_Witness ==
  /\ BranchRan(last)
  /\ last.tests = <<TRUE>>
  /\ last.leaf = "FR"
  /\ last.paid = get_energy_cost("PT") + get_energy_cost("FR")
  /\ parse_instruction(
       ChosenBranch(DispatchedTest(last.before.robots[last.actor], last.route),
                    FALSE)).type = "DM"
  /\ \E j \in 1 .. Len(last.before.robots) :
       last.after.robots[j].energy < last.before.robots[j].energy

\* the units that robot i can take as target in roster rs: of another side,
\* not Dead and not Invisible
Targets(rs, i) ==
  {k \in 1 .. Len(rs) :
     /\ rs[k].player_id # rs[i].player_id
     /\ rs[k].status \notin {DEAD, INVISIBLE}}

\* the Manhattan distance between units i and k of roster rs
Manhattan(rs, i, k) == Abs(rs[i].x - rs[k].x) + Abs(rs[i].y - rs[k].y)

\* the targets of robot i that no target is nearer than
NearestTargets(rs, i) ==
  {k \in Targets(rs, i) :
     \A j \in Targets(rs, i) : Manhattan(rs, i, k) <= Manhattan(rs, i, j)}

\* C28: Pursue and Avoid aim at a living unit of another side that is not
\* Invisible and that no other such unit is nearer than in Manhattan distance,
\* Frozen units included: the direction taken is the one towards it for
\* Pursue and the one away from it for Avoid; when there is no such unit no
\* direction is taken and nothing moves, whatever Invisible enemies there are.
C28_TargetIsNearestVisibleEnemy ==
  last.leaf \in {"PM", "AM"} =>
    LET a == last.actor
        rs == last.before.robots
    IN IF Targets(rs, a) = {}
       THEN last.dir = NoDirection /\ last.after = last.before
       ELSE \E k \in NearestTargets(rs, a) :
              last.dir = IF last.leaf = "PM"
                         THEN get_move_towards(rs[a].x, rs[a].y, rs[k].x, rs[k].y)
                         ELSE get_move_away(rs[a].x, rs[a].y, rs[k].x, rs[k].y)

\* a unit pursued a Frozen enemy although an Invisible enemy stood nearer, in
\* another direction
C28_Witness ==
  /\ last.leaf = "PM"
  /\ LET a == last.actor
         rs == last.before.robots
     IN /\ \E k \in NearestTargets(rs, a) :
             /\ rs[k].status = FROZEN
             /\ last.dir = get_move_towards(rs[a].x, rs[a].y, rs[k].x, rs[k].y)
        /\ \E v \in 1 .. Len(rs) :
             /\ rs[v].status = INVISIBLE
             /\ rs[v].player_id # rs[a].player_id
             /\ \A k \in Targets(rs, a) : Manhattan(rs, a, v) < Manhattan(rs, a, k)
             /\ get_move_towards(rs[a].x, rs[a].y, rs[v].x, rs[v].y) # last.dir
        /\ get_position(last.after.robots[a]) # get_position(rs[a])

\* C29: laying a mine on a cell that already holds a hazard leaves the
\* hazard mapping as it is; otherwise it adds one hazard, at the unit's cell,
\* with damage 200 and an id whose quotient by 10 is the unit's side, and
\* leaves all other hazards alone; in both cases units, grid and occupancy
\* are unchanged.
C29_OneHazardPerCell ==
  last.leaf = "MI" =>
    LET b == last.before
        f == last.after
        r == b.robots[last.actor]
        cell == <<r.x, r.y>>
    IN /\ f.robots = b.robots /\ f.grid = b.grid /\ f.arobots = b.arobots
       /\ IF cell \in DOMAIN b.mines
          THEN f.mines = b.mines
          ELSE /\ DOMAIN f.mines = DOMAIN b.mines \cup {cell}
               /\ \A p \in DOMAIN b.mines : f.mines[p] = b.mines[p]
               /\ f.mines[cell][2] = 200
               /\ f.mines[cell][1] \div 10 = r.player_id

\* a unit laid a mine on the cell where it had laid one before: the cell
\* holds that one hazard of its side
C29_Witness ==
  /\ last.leaf = "MI"
  /\ LET r == last.before.robots[last.actor]
     IN /\ <<r.x, r.y>> \in DOMAIN last.before.mines
        /\ last.after.mines = last.before.mines
        /\ DOMAIN last.after.mines = {<<r.x, r.y>>}
        /\ last.after.mines[<<r.x, r.y>>][1] \div 10 = r.player_id
  /\ last.paid = get_energy_cost("MI")

\* the units already dispatched in the turn that is being executed
DispatchedThisTurn == {living_robots[j] : j \in 1 .. idx - 1}

FreeCell(b, c) ==
  /\ c \in Positions
  /\ b.grid[c] \notin {OBSTACLE, DEAD_ROBOT}
  /\ c \notin DOMAIN b.arobots
  /\ c \notin DOMAIN b.mines

\* the dispatch recorded in l moved its unit into the free cell it aimed at
TookFreeCell(l) ==
  /\ l.actor # NoRobot
  /\ MoveReached(l)
  /\ FreeCell(l.before, MoveDest(l))
  /\ get_position(l.after.robots[l.actor]) = MoveDest(l)

UnitsOfPass == {living_robots[j] : j \in 1 .. Len(living_robots)}

C33_FrozenUntilDeath ==
  [][\A k \in Roster :
       robots[k].status = FROZEN =>
         /\ robots'[k].status \in {FROZEN, DEAD}
         /\ get_position(robots'[k]) = get_position(robots[k])
         /\ robots'[k].program_counter = robots[k].program_counter
         /\ robots'[k].energy # robots[k].energy =>
              /\ DispatchStep
              /\ last'.actor # k
              /\ last'.leaf \in FireTypes
              /\ robots'[k].energy = robots[k].energy - get_damage(last'.leaf)
         /\ robots'[k].status = DEAD =>
              /\ robots'[k].energy < robots[k].energy
              /\ robots'[k].energy <= 0
         /\ (DispatchStep /\ living_robots[idx] = k) =>
              /\ last'.route = "frozen"
              /\ last'.paid = 0
              /\ UNCHANGED <<robots, grid, mines, arobots>>]_vars

\* in the third turn a shot killed a unit that froze in the first turn at
\* energy 205 and had stayed Frozen, at its cell and counter, through one hit
\* and two dispatches
C33_Witness ==
  /\ turn_pc = "dispatch"
  /\ current_turn = 2
  /\ last.leaf \in FireTypes
  /\ \E k \in Roster :
       /\ last.before.robots[k].status = FROZEN
       /\ last.before.robots[k].energy = 205 - get_damage("FR")
       /\ last.before.robots[k].program_counter = 0
       /\ last.after.robots[k].status = DEAD
       /\ get_position(last.after.robots[k]) = get_position(last.before.robots[k])
       /\ robots[k].status = DEAD

\* C34: no step raises a unit's energy, and no unit ever has more energy than
\* its max_energy.
C34_EnergyNeverIncreases ==
  /\ [](\A k \in Roster : robots[k].energy <= robots[k].max_energy)
  /\ [][\A k \in Roster : robots'[k].energy <= robots[k].energy]_vars

\* a second turn has ended in which a shot was paid for and took energy from
\* its target, after both units had paid for a first turn
C34_Witness ==
  /\ turn_pc = "idle"
  /\ returned = TRUE
  /\ current_turn = 2
  /\ last.leaf \in FireTypes
  /\ last.paid >= get_energy_cost(last.leaf)
  /\ last.after.robots[last.actor].energy < robots[last.actor].max_energy - last.paid
  /\ \E k \in Roster :
       /\ k # last.actor
       /\ last.after.robots[k].energy = last.before.robots[k].energy - get_damage(last.leaf)
       /\ last.before.robots[k].energy < robots[k].max_energy
       /\ robots[k].energy = last.after.robots[k].energy

\* C35: from the cell of any unit to any cell of the arena there is line of
\* sight exactly when no cell sampled strictly between them is an Obstacle or
\* a Wreck: units and hazards on the sampled cells, and the kind of the
\* destination cell, make no difference.
C35_SightBlockedOnlyByObstacles ==
  \A k \in Roster :
    \A b \in Positions :
      has_line_of_sight(Game, robots[k].x, robots[k].y, b[1], b[2])
        <=> LineClear(grid, get_position(robots[k]), b)

\* a proximity test was true for an enemy seen past a cell, sampled on the
\* line to it, that holds a unit standing on a hazard
C35_Witness ==
  /\ last.tests = <<TRUE>>
  /\ last.before # NoSnap
  /\ LET rs == last.before.robots
         seen == Detectable(rs, last.before.grid, last.actor)
     IN /\ seen # {}
        /\ \A k \in seen :
             \E c \in SampledCells(get_position(rs[last.actor]), get_position(rs[k])) :
               /\ c \in DOMAIN last.before.arobots
               /\ c \in DOMAIN last.before.mines

\* cells a and b are two cells apart on one axis and one on the other
SkewOffset(a, b) ==
  {Abs(b[1] - a[1]), Abs(b[2] - a[2])} = {1, 2}

\* the cell half-way on the long axis, in the row or column of a
HalfWayFrom(a, b) ==
  IF Abs(b[1] - a[1]) = 2
  THEN <<(a[1] + b[1]) \div 2, a[2]>>
  ELSE <<a[1], (a[2] + b[2]) \div 2>>

\* cell c of the grid is an Obstacle or a Wreck
Blocking(c) == grid[c] \in {OBSTACLE, DEAD_ROBOT}

\* C36: for two units whose cells are two apart on one axis and one on the
\* other, the line of sight from each cell samples the half-way cell in its
\* own row or column, so the two directions test different cells: when one of
\* these cells is an Obstacle or Wreck and the other is not, there is line of
\* sight in one direction and none in the other.
C36_SightIsNotSymmetric ==
  \A k, j \in Roster :
    \A a \in {get_position(robots[k])} :
      \A b \in {get_position(robots[j])} :
        SkewOffset(a, b) =>
          /\ has_line_of_sight(Game, a[1], a[2], b[1], b[2]) <=> ~ Blocking(HalfWayFrom(a, b))
          /\ HalfWayFrom(a, b) # HalfWayFrom(b, a)
          /\ (Blocking(HalfWayFrom(a, b)) /\ ~ Blocking(HalfWayFrom(b, a))) =>
               /\ ~ has_line_of_sight(Game, a[1], a[2], b[1], b[2])
               /\ has_line_of_sight(Game, b[1], b[2], a[1], a[2])

\* in the first turn the first unit detected the second and fired, and the
\* second unit, tested right after it from the other end of the same line with
\* both units able, at three cells' distance within the radius, did not
\* detect the first
C36_Witness ==
  /\ turn_pc = "dispatch"
  /\ current_turn = 0
  /\ idx = 3
  /\ last.actor = living_robots[2]
  /\ last.tests = <<FALSE>>
  /\ LET a == robots[living_robots[1]]
         b == robots[living_robots[2]]
     IN /\ a.player_id # b.player_id
        /\ a.status = ALIVE /\ b.status = ALIVE
        /\ SkewOffset(get_position(a), get_position(b))
        /\ Distance(a, b) <= proximity_distance
        /\ a.energy = a.max_energy - get_energy_cost("PT") - get_energy_cost("FR")
        /\ has_line_of_sight(Game, a.x, a.y, b.x, b.y)
        /\ ~ has_line_of_sight(Game, b.x, b.y, a.x, a.y)

\* the living units that no living unit exceeds in energy
TopUnits == {k \in LivingUnits : \A j \in LivingUnits : robots[j].energy <= robots[k].energy}

\* C37: when a battle finishes with several living units, which happens at
\* the turn limit only, the winner is the side of the unit that comes first
\* in the roster among the living units with the highest energy.
C37_TieGoesToFirstInRoster ==
  (phase = FINISHED /\ Cardinality(LivingUnits) >= 2) =>
    /\ current_turn >= MaxTurns
    /\ \E k \in TopUnits :
         /\ \A j \in TopUnits : k <= j
         /\ winner_id = robots[k].player_id

\* a battle finished at the turn limit with living units of two sides tied
\* for the highest energy: the side of the earlier one is the winner
C37_Witness ==
  /\ phase = FINISHED
  /\ current_turn = MaxTurns
  /\ \E j, k \in TopUnits :
       /\ j < k
       /\ \A m \in TopUnits : j <= m
       /\ robots[j].player_id # robots[k].player_id
       /\ robots[j].energy = robots[k].energy
       /\ winner_id = robots[j].player_id
       /\ winner_id # robots[k].player_id

\* no instruction of robot r carries a ProximityTest as a branch of a
\* ProximityTest
NoNestedTest(r) ==
  \A s \in InstructionStrings(r) :
    LET instruction == parse_instruction(s) IN
    (instruction.ok /\ instruction.type = "PT") =>
      \A b \in 1 .. Len(instruction.parameter) :
        parse_instruction(instruction.parameter[b]).type # "PT"

\* C38: a unit without nested ProximityTests that is dispatched on the normal
\* route has more than 210 energy, pays at most 204 (the instruction, and for
\* a ProximityTest the chosen branch) and has energy above 0 after paying, so
\* that it is Dead after its dispatch only through damage; a dispatch whose
\* costs leave the unit at or below 0 is one of the emergency routine.
C38_NormalRouteCostNeverKills ==
  [][(DispatchStep /\ NoNestedTest(robots[living_robots[idx]])) =>
       LET i == living_robots[idx]
           left == robots[i].energy - last'.paid
       IN /\ last'.route = "normal" =>
               /\ robots[i].energy > 210
               /\ last'.paid <= 204
               /\ left > 0
               /\ robots'[i].energy <= 0 => robots'[i].energy < left
          /\ (last'.paid > 0 /\ left <= 0) => last'.route = "emergency"]_vars

\* a unit was dispatched on the normal route with energy 211, paid a
\* ProximityTest and its branch of cost 200, and is left with energy 7
C38_Witness ==
  /\ turn_pc = "dispatch"
  /\ last.actor # NoRobot
  /\ last.route = "normal"
  /\ Len(last.tests) = 1
  /\ last.paid = get_energy_cost("PT") + get_energy_cost("IN")
  /\ NoNestedTest(robots[last.actor])
  /\ robots[last.actor].energy = 211 - last.paid
  /\ robots[last.actor].status # DEAD

\* the units, not Dead, that stand on a cell with a hazard
OnHazard == {k \in LivingUnits : get_position(robots[k]) \in DOMAIN mines}

\* C39: a living unit on a cell with a hazard is of the side that owns the
\* hazard, and a unit that a move took to another cell finds no hazard there
\* after the move: a hazard of its side would have held it back, and a hazard
\* of another side is taken off the cell when it is entered.
C39_UnitsStandOnlyOnOwnHazards ==
  /\ \A k \in OnHazard :
       MineOwner(mines[get_position(robots[k])][1]) = robots[k].player_id
  /\ (/\ MoveReached(last)
      /\ get_position(last.after.robots[last.actor])
           # get_position(last.before.robots[last.actor])) =>
       /\ get_position(last.after.robots[last.actor]) = MoveDest(last)
       /\ MoveDest(last) \notin DOMAIN last.after.mines
       /\ MoveDest(last) \in DOMAIN last.before.mines =>
            MineOwner(last.before.mines[MoveDest(last)][1])
              # last.before.robots[last.actor].player_id

\* a living unit stands on the hazard it laid while a unit of another side
\* has just moved to a cell next to it
C39_Witness ==
  /\ phase = BATTLE
  /\ OnHazard # {}
  /\ MoveReached(last)
  /\ get_position(last.after.robots[last.actor]) = MoveDest(last)
  /\ MoveDest(last) \notin DOMAIN mines
  /\ \E k \in OnHazard :
       /\ robots[k].player_id # robots[last.actor].player_id
       /\ Abs(robots[k].x - MoveDest(last)[1]) + Abs(robots[k].y - MoveDest(last)[2]) = 1

====
